---- MODULE Spec2Model ----
(***************************************************************************)
(* A state-machine model of the article extractor                          *)
(* (LeadNewswire/article-extractor).                                       *)
(*                                                                         *)
(* Strings are sequences of one-code-point strings, so that substring      *)
(* matching, whitespace normalisation and rune/byte lengths are computed   *)
(* as the Go code computes them.  float64 scores are modelled as exact     *)
(* rationals <<numerator, denominator>>.                                   *)
(***************************************************************************)
EXTENDS Integers, Sequences, FiniteSets, TLC

VARIABLES
    call,           \* the pure-function call under test: operation and arguments
    ret,            \* its result
    pc,             \* position of the Extract call in extractFromDocument
    config,         \* Extractor.config
    baseURL,        \* the baseURL argument ("" for Extract)
    input,          \* the document as parsed from the html argument
    meta,           \* title, author, publishedAt, leadImage of the call (NoMeta: not yet)
    doc,            \* the parsed goquery document (mutated by Preprocess)
    scoreMap,       \* scorer.ScoreMap.scores, in insertion order
    topCandidate,   \* the *NodeScore returned by Scorer.Score: an index, 0 for nil
    contentSel,     \* the selection returned by MergeSiblings (0: none yet)
    contentClone,   \* contentSel.Clone(), cleaned by Postprocess
    result          \* what Extract returned: an Article or an error

fnvars == <<call, ret>>
exvars == <<pc, config, baseURL, input, meta, doc, scoreMap, topCandidate, contentSel, contentClone, result>>
vars == <<call, ret, pc, config, baseURL, input, meta, doc, scoreMap, topCandidate, contentSel,
          contentClone, result>>

-----------------------------------------------------------------------------
(* Exact rationals standing for float64 values.                            *)

RECURSIVE GCD(_, _)
GCD(a, b) == IF b = 0 THEN a ELSE GCD(b, a % b)

Rat(n, d) ==
    LET abs(x) == IF x < 0 THEN -x ELSE x
        g == GCD(abs(n), abs(d))
        s == IF d < 0 THEN -1 ELSE 1
    IN  <<(s * n) \div g, (s * d) \div g>>

RAdd(a, b) == Rat(a[1] * b[2] + b[1] * a[2], a[2] * b[2])
RSub(a, b) == Rat(a[1] * b[2] - b[1] * a[2], a[2] * b[2])
RMul(a, b) == Rat(a[1] * b[1], a[2] * b[2])
RLt(a, b) == a[1] * b[2] < b[1] * a[2]
RGt(a, b) == RLt(b, a)

-----------------------------------------------------------------------------
(* Text: code points, their UTF-8 width, whitespace classes.               *)

\* "cjk" is the ideographic comma U+FF0C, "nbsp" is U+00A0; "raquo" (U+00BB),
\* "mdash" (U+2014) and "middot" (U+00B7) are the characters of the title
\* separators, "period" is the ideographic full stop U+3002.
ByteWidth(c) ==
    IF c \in {"cjk", "mdash", "period"} THEN 3
    ELSE IF c \in {"nbsp", "raquo", "middot", "Acirc", "eacute"} THEN 2
    ELSE 1

\* regexp \s of whitespaceRegex: [\t\n\f\r ]
IsReSpace(c) == c \in {" ", "\t", "\n", "\r", "\f"}

\* unicode.IsSpace, used by strings.TrimSpace and CountWords
IsUniSpace(c) == IsReSpace(c) \/ c = "nbsp"

Idx(s) == [i \in 1..Len(s) |-> i]

\* strings.Repeat
Rep(s, n) == [i \in 1..(n * Len(s)) |-> s[((i - 1) % Len(s)) + 1]]

RECURSIVE SumSeq(_)
SumSeq(s) == IF s = <<>> THEN 0 ELSE Head(s) + SumSeq(Tail(s))

\* len(string): the number of bytes
ByteLen(s) ==
    Len(s) + Cardinality({i \in 1..Len(s) : ByteWidth(s[i]) = 2})
           + 2 * Cardinality({i \in 1..Len(s) : ByteWidth(s[i]) = 3})

\* utf8.RuneCountInString / len([]rune(s)): the number of code points
RuneCount(s) == Len(s)

\* whitespaceRegex.ReplaceAllString(text, " ")
CollapseWhitespace(s) ==
    LET keep(i) == ~(IsReSpace(s[i]) /\ i > 1 /\ IsReSpace(s[i - 1]))
        ks == SelectSeq(Idx(s), keep)
    IN  [k \in 1..Len(ks) |-> IF IsReSpace(s[ks[k]]) THEN " " ELSE s[ks[k]]]

\* strings.TrimSpace
TrimSpace(s) ==
    LET ns == SelectSeq(Idx(s), LAMBDA i : ~IsUniSpace(s[i]))
    IN  IF ns = <<>> THEN <<>> ELSE SubSeq(s, ns[1], ns[Len(ns)])

NormalizeText(text) == TrimSpace(CollapseWhitespace(text))

\* dom.NormalizeTextPreserveNewlines
NormalizeTextPreserveNewlines(text) ==
    LET nl == <<0>> \o SelectSeq(Idx(text), LAMBDA i : text[i] = "\n")
                    \o <<Len(text) + 1>>
        line(k) == TrimSpace(CollapseWhitespace(SubSeq(text, nl[k] + 1, nl[k + 1] - 1)))
        RECURSIVE join(_)
        join(k) == IF k = Len(nl) - 1 THEN line(k)
                   ELSE line(k) \o <<"\n">> \o join(k + 1)
        j == join(1)
        keep(i) == ~(j[i] = "\n" /\ i > 2 /\ j[i - 1] = "\n" /\ j[i - 2] = "\n")
        ks == SelectSeq(Idx(j), keep)
    IN  TrimSpace([k \in 1..Len(ks) |-> j[ks[k]]])

\* dom.CountCommas
CountCommas(text) ==
    Cardinality({i \in 1..Len(text) : text[i] = "," \/ text[i] = "cjk"})

\* dom.CountWords
CountWords(text) ==
    LET t == NormalizeText(text)
    IN  Cardinality({i \in 1..Len(t) :
            ~IsUniSpace(t[i]) /\ (i = Len(t) \/ IsUniSpace(t[i + 1]))})

\* strings.HasPrefix(s[i-1:], sub), positions counted from 1
MatchesAt(s, sub, i) ==
    /\ i + Len(sub) - 1 <= Len(s)
    /\ \A j \in 1..Len(sub) : s[i + j - 1] = sub[j]

\* strings.Index(s, sub) and strings.LastIndex(s, sub), -1 when absent
Index(s, sub) ==
    LET hits == SelectSeq([i \in 1..(Len(s) + 1) |-> i], LAMBDA i : MatchesAt(s, sub, i))
    IN  IF hits = <<>> THEN -1 ELSE hits[1] - 1
LastIndex(s, sub) ==
    LET hits == SelectSeq([i \in 1..(Len(s) + 1) |-> i], LAMBDA i : MatchesAt(s, sub, i))
    IN  IF hits = <<>> THEN -1 ELSE hits[Len(hits)] - 1

\* strings.Contains
Contains(s, sub) == Index(s, sub) # -1

-----------------------------------------------------------------------------
(* Keyword classifier.                                                     *)

kw_article == <<"a","r","t","i","c","l","e">>
kw_content == <<"c","o","n","t","e","n","t">>
kw_sidebar == <<"s","i","d","e","b","a","r">>
kw_ad == <<"a","d">>

whitelistKeywords == <<
    kw_article, <<"b","o","d","y">>, kw_content, <<"e","n","t","r","y">>, <<"m","a","i","n">>, <<"p","a","g","e">>, <<"p","o","s","t">>,
    <<"t","e","x","t">>, <<"b","l","o","g">>, <<"s","t","o","r","y">>, <<"h","e","n","t","r","y">>, <<"h","-","e","n","t","r","y">>, <<"e","n","t","r","y","-","c","o","n","t","e","n","t">>,
    <<"a","r","t","i","c","l","e","-","b","o","d","y">>, <<"a","r","t","i","c","l","e","-","c","o","n","t","e","n","t">> >>

blacklistKeywords == <<
    kw_ad, <<"a","d","v","e","r","t","i","s","e","m","e","n","t">>, <<"b","a","n","n","e","r">>, <<"b","r","e","a","d","c","r","u","m","b","s">>, <<"c","o","m","b","x">>, <<"c","o","m","m","e","n","t">>,
    <<"c","o","m","m","u","n","i","t","y">>, <<"c","o","v","e","r","-","w","r","a","p">>, <<"d","i","s","q","u","s">>, <<"e","x","t","r","a">>, <<"f","o","o","t","e","r">>, <<"g","d","p","r">>,
    <<"h","e","a","d","e","r">>, <<"l","e","g","e","n","d","s">>, <<"m","e","n","u">>, <<"r","e","l","a","t","e","d">>, <<"r","e","m","a","r","k">>, <<"r","e","p","l","i","e","s">>, <<"r","s","s">>,
    <<"s","h","o","u","t","b","o","x">>, kw_sidebar, <<"s","k","y","s","c","r","a","p","e","r">>, <<"s","o","c","i","a","l">>, <<"s","p","o","n","s","o","r">>,
    <<"s","u","p","p","l","e","m","e","n","t","a","l">>, <<"w","i","d","g","e","t">>, <<"a","g","e","g","a","t","e">>, <<"p","a","g","i","n","a","t","i","o","n">>, <<"p","a","g","e","r">>, <<"p","o","p","u","p">>,
    <<"p","r","i","n","t">>, <<"a","r","c","h","i","v","e">>, <<"a","u","t","h","o","r","-","i","n","f","o">>, <<"a","u","t","h","o","r","-","b","o","x">>, <<"b","i","o">>, <<"c","a","r","o","u","s","e","l">>,
    <<"g","a","l","l","e","r","y">>, <<"m","o","d","a","l">>, <<"n","a","v","i","g","a","t","i","o","n">>, <<"n","e","w","s","l","e","t","t","e","r">>, <<"p","r","o","m","o">>, <<"s","h","a","r","e">>,
    <<"s","u","b","s","c","r","i","b","e">>, <<"t","a","g","s">>, <<"t","o","o","l","b","a","r">>, <<"t","r","e","n","d","i","n","g">>,
    <<"d","d","-","w","i","d","g","e","t">>, <<"d","e","e","p","e","r","d","i","v","e">>, <<"a","i","-","w","i","d","g","e","t">>, <<"c","h","a","t","b","o","t">>, <<"a","s","k","-","a","i">>, <<"g","e","n","a","i">>,
    <<"a","i","-","a","s","s","i","s","t","a","n","t">>, <<"a","i","-","a","n","s","w","e","r">> >>

\* the (?i) flag of the compiled patterns: ASCII letters fold to lower case
FoldCase(c) ==
    LET upper == <<"A","B","C","D","E","F","G","H","I","J","K","L","M","N","O","P","Q","R","S","T","U","V","W","X","Y","Z">>
        lower == <<"a","b","c","d","e","f","g","h","i","j","k","l","m","n","o","p","q","r","s","t","u","v","w","x","y","z">>
    IN  IF \E k \in 1..26 : upper[k] = c
        THEN lower[CHOOSE k \in 1..26 : upper[k] = c]
        ELSE c

\* regexp.MatchString of the pattern "(?i)(kw1|kw2|...)": unanchored search
MatchString(keywords, s) ==
    LET f == [i \in 1..Len(s) |-> FoldCase(s[i])]
    IN  \E k \in 1..Len(keywords) : \E i \in 1..Len(s) : MatchesAt(f, keywords[k], i)

IsWhitelisted(s) == IF s = <<>> THEN FALSE ELSE MatchString(whitelistKeywords, s)

IsBlacklisted(s) == IF s = <<>> THEN FALSE ELSE MatchString(blacklistKeywords, s)

\* GetWeight with "else if" between the whitelist and the blacklist test
GetWeight_ElseIf(class, id) ==
    LET c == IF class = <<>> THEN 0
             ELSE IF IsWhitelisted(class) THEN 25
             ELSE IF IsBlacklisted(class) THEN -25 ELSE 0
        i == IF id = <<>> THEN 0
             ELSE IF IsWhitelisted(id) THEN 25
             ELSE IF IsBlacklisted(id) THEN -25 ELSE 0
    IN  c + i

GetWeight(class, id) ==
    LET c1 == IF class # <<>> /\ IsWhitelisted(class) THEN 25 ELSE 0
        c2 == IF class # <<>> /\ IsBlacklisted(class) THEN 25 ELSE 0
        i1 == IF id # <<>> /\ IsWhitelisted(id) THEN 25 ELSE 0
        i2 == IF id # <<>> /\ IsBlacklisted(id) THEN 25 ELSE 0
    IN  c1 - c2 + i1 - i2

-----------------------------------------------------------------------------
(* Scoring constants and the paragraph scorer.                             *)

HNewsBonus == 80
ParagraphBaseScore == 1
CommaBonus == 1
LengthChunkSize == 50
MaxLengthBonus == 3
DivBonus == 5
TdBlockquoteBonus == 3
FormAddressPenalty == -3
ParentScoreProportion == <<1, 1>>
GrandparentScoreProportion == <<1, 2>>
LowWeightLinkDensityMax == <<1, 5>>
HighWeightLinkDensityMax == <<1, 2>>
SiblingScoreThresholdBase == <<10, 1>>
SiblingScoreThresholdFactor == <<1, 4>>

GetTagScore(tag) ==
    CASE tag = "div" -> DivBonus
      [] tag \in {"td", "blockquote"} -> TdBlockquoteBonus
      [] tag \in {"form", "address"} -> FormAddressPenalty
      [] OTHER -> 0

\* ScoreParagraph counting the ASCII comma only
ScoreParagraph_AsciiCommas(rawText, minLength) ==
    LET text == NormalizeText(rawText)
        textLen == RuneCount(text)
        commas == Cardinality({i \in 1..Len(text) : text[i] = ","})
        chunks == textLen \div LengthChunkSize
        lengthBonus == IF chunks > MaxLengthBonus THEN MaxLengthBonus ELSE chunks
    IN  IF textLen < minLength THEN 0
        ELSE ParagraphBaseScore + commas * CommaBonus + lengthBonus

\* ScoreParagraph on the raw text of the selection (sel.Text())
ScoreParagraph(rawText, minLength) ==
    LET text == NormalizeText(rawText)
        textLen == RuneCount(text)
        commas == CountCommas(text)
        chunks == textLen \div LengthChunkSize
        lengthBonus == IF chunks > MaxLengthBonus THEN MaxLengthBonus ELSE chunks
    IN  IF textLen < minLength THEN 0
        ELSE ParagraphBaseScore + commas * CommaBonus + lengthBonus

\* GetSiblingThreshold without the base floor
GetSiblingThreshold_NoFloor(topScore) == RMul(topScore, SiblingScoreThresholdFactor)

GetSiblingThreshold(topScore) ==
    LET threshold == RMul(topScore, SiblingScoreThresholdFactor)
    IN  IF RLt(threshold, SiblingScoreThresholdBase)
        THEN SiblingScoreThresholdBase
        ELSE threshold

-----------------------------------------------------------------------------
(* The document tree.  A tree is a function from node identifiers to node  *)
(* records; node 1 is the html element and 0 stands for the document node  *)
(* (and for the empty selection).  A removed node stays in the arena but   *)
(* is no longer the child of any node.                                     *)

MaxNodes == 18
Nodes == 1..MaxNodes
Root == 1
Doc == 0

El(tag, attrs, kids) == [tag |-> tag, attrs |-> attrs, kids |-> kids, text |-> <<>>]
Tx(text) == [tag |-> "#text", attrs |-> {}, kids |-> <<>>, text |-> text]
EmptyNode == [tag |-> "", attrs |-> {}, kids |-> <<>>, text |-> <<>>]
EmptyTree == [n \in Nodes |-> EmptyNode]

IsElement(d, n) == d[n].tag \notin {"", "#text"}

\* sel.Attr(name) / dom.GetAttribute: presence, and the value ("" when absent)
HasAttribute(d, n, name) == \E a \in d[n].attrs : a[1] = name
GetAttribute(d, n, name) ==
    IF HasAttribute(d, n, name)
    THEN (CHOOSE a \in d[n].attrs : a[1] = name)[2]
    ELSE <<>>

\* sel.Parent(): the parent when it is an element, 0 for an empty selection
Parent(d, n) ==
    LET ps == {m \in Nodes : IsElement(d, m) /\ \E i \in 1..Len(d[m].kids) : d[m].kids[i] = n}
    IN  IF ps = {} THEN 0 ELSE CHOOSE m \in ps : TRUE

\* sel.Children(): the element children, in order
Children(d, n) == SelectSeq(d[n].kids, LAMBDA k : IsElement(d, k))

RECURSIVE Preorder(_, _), PreorderAll(_, _)
Preorder(d, n) == <<n>> \o PreorderAll(d, d[n].kids)
PreorderAll(d, ks) ==
    IF ks = <<>> THEN <<>> ELSE Preorder(d, Head(ks)) \o PreorderAll(d, Tail(ks))

\* the descendants of n in document order (n itself excluded)
Descendants(d, n) == IF n = Doc THEN Preorder(d, Root) ELSE PreorderAll(d, d[n].kids)

SeqToSet(s) == {s[i] : i \in 1..Len(s)}

\* sel.Find(selector): the descendant elements the selector matches, in
\* document order; doc.Find searches from the document node
Find(d, n, Sel(_, _)) ==
    SelectSeq(Descendants(d, n), LAMBDA k : IsElement(d, k) /\ Sel(d, k))

\* the selectors "*" and "tag1, tag2, ..."
AnyElement(d, k) == TRUE
FindTags(d, n, tags) == Find(d, n, LAMBDA t, k : t[k].tag \in tags)

\* sel.Text(): the text nodes of the subtree, concatenated
Text(d, n) ==
    LET RECURSIVE cat(_)
        cat(ns) == IF ns = <<>> THEN <<>> ELSE d[Head(ns)].text \o cat(Tail(ns))
    IN  cat(Preorder(d, n))

\* dom.GetText, dom.GetTextLength
GetText(d, n) == NormalizeText(Text(d, n))
GetTextLength(d, n) == RuneCount(GetText(d, n))

\* dom.GetLinkTextLength
GetLinkTextLength(d, n) ==
    LET as == FindTags(d, n, {"a"})
    IN  SumSeq([i \in 1..Len(as) |-> GetTextLength(d, as[i])])

\* dom.CalculateLinkDensity
CalculateLinkDensity(d, n) ==
    LET textLen == GetTextLength(d, n)
    IN  IF textLen = 0 THEN <<0, 1>>
        ELSE Rat(GetLinkTextLength(d, n), textLen)

\* sel.Remove() for every node of the set
RemoveNodes(d, S) ==
    [m \in Nodes |-> [d[m] EXCEPT !.kids = SelectSeq(@, LAMBDA k : k \notin S)]]

\* list.Each(func(sel) { if Cond(sel) { sel.Remove() } }), the list computed before
RemoveEach(d, list, Cond(_, _)) ==
    LET RECURSIVE go(_, _)
        go(t, l) ==
            IF l = <<>> THEN t
            ELSE go(IF Cond(t, Head(l)) THEN RemoveNodes(t, {Head(l)}) ELSE t, Tail(l))
    IN  go(d, list)

\* list.Each(func(sel) { ... sel.SetHtml(...) }): SetHtml re-parses the
\* content of sel, so the selections of the list below sel are left on
\* detached nodes and what the callback does to them never reaches the document
EachSetHtml(d, list, Step(_, _)) ==
    LET RECURSIVE go(_, _, _)
        go(t, l, stale) ==
            IF l = <<>> THEN t
            ELSE IF Head(l) \in stale THEN go(t, Tail(l), stale)
            ELSE LET t2 == Step(t, Head(l))
                 IN  go(t2, Tail(l),
                        IF t2 = t THEN stale
                        ELSE stale \cup SeqToSet(Descendants(t, Head(l))))
    IN  go(d, list, {})

\* the unused node identifiers, for the nodes a re-parse creates
FreeNodes(d) == SelectSeq([i \in Nodes |-> i], LAMBDA k : d[k].tag = "")

\* sel.HasClass(c): whole-token match in the class attribute
HasClass(d, n, c) ==
    LET v == GetAttribute(d, n, "class")
        sp == [i \in 1..Len(v) |-> IF v[i] \in {"\t", "\r", "\n", "\f"} THEN " " ELSE v[i]]
    IN  Contains(<<" ">> \o sp \o <<" ">>, <<" ">> \o c \o <<" ">>)

-----------------------------------------------------------------------------
(* cleaner.Preprocess                                                      *)

removeTagsList ==
    {"script", "style", "noscript", "iframe", "object", "embed", "applet", "link", "meta"}

unlikelyTags == {"footer", "header", "nav", "aside", "menu", "menuitem"}

\* for _, tag := range removeTagsList { doc.Find(tag).Remove() }
RemoveUnwantedTags(d) ==
    RemoveNodes(d, SeqToSet(FindTags(d, Doc, removeTagsList)))

\* hiddenStyleRegex.MatchString:
\* (?i)(display\s*:\s*none|visibility\s*:\s*hidden)
MatchesHiddenStyle(style) ==
    LET f == [i \in 1..Len(style) |-> FoldCase(style[i])]
        skip(i) == CHOOSE j \in i..(Len(f) + 1) :
                       /\ j = Len(f) + 1 \/ ~IsReSpace(f[j])
                       /\ \A k \in i..(j - 1) : IsReSpace(f[k])
        m(prop, val) ==
            \E i \in 1..Len(f) :
                /\ MatchesAt(f, prop, i)
                /\ LET a == skip(i + Len(prop))
                   IN  a <= Len(f) /\ f[a] = ":" /\ MatchesAt(f, val, skip(a + 1))
    IN  m(<<"d","i","s","p","l","a","y">>, <<"n","o","n","e">>) \/ m(<<"v","i","s","i","b","i","l","i","t","y">>, <<"h","i","d","d","e","n">>)

RemoveHiddenElements(d) ==
    LET d1 == RemoveEach(d, Find(d, Doc, LAMBDA t, k : HasAttribute(t, k, "style")),
                  LAMBDA t, k : MatchesHiddenStyle(GetAttribute(t, k, "style")))
        d2 == RemoveNodes(d1,
                  SeqToSet(Find(d1, Doc, LAMBDA t, k : HasAttribute(t, k, "hidden"))))
    IN  RemoveNodes(d2,
            SeqToSet(Find(d2, Doc, LAMBDA t, k : GetAttribute(t, k, "aria-hidden") = <<"t","r","u","e">>)))

widgetExactClasses == <<
    <<"d","d","-","w","i","d","g","e","t","-","w","r","a","p","p","e","r">>, <<"d","d","-","w","i","d","g","e","t","-","i","n","p","u","t","-","w","r","a","p","p","e","r">>, <<"d","e","e","p","e","r","d","i","v","e","-","w","i","d","g","e","t">>,
    <<"a","i","-","c","h","a","t","b","o","t">>, <<"c","h","a","t","b","o","t","-","c","o","n","t","a","i","n","e","r">>, <<"a","i","-","a","s","s","i","s","t","a","n","t","-","w","i","d","g","e","t">> >>

\* widgetClassPatterns.MatchString:
\* (?i)(^|[\s"'-])(dd-widget|deeperdive|...|ai-summary)([\s"'-]|$)
MatchesWidgetPattern(s) ==
    LET words == << <<"d","d","-","w","i","d","g","e","t">>, <<"d","e","e","p","e","r","d","i","v","e">>, <<"a","i","-","w","i","d","g","e","t">>, <<"c","h","a","t","b","o","t","-","w","i","d","g","e","t">>,
                    <<"a","s","k","-","a","i">>, <<"g","e","n","a","i","-","w","i","d","g","e","t">>, <<"a","i","-","a","s","s","i","s","t","a","n","t">>, <<"a","i","-","a","n","s","w","e","r">>,
                    <<"a","i","-","s","u","m","m","a","r","y">> >>
        f == [i \in 1..Len(s) |-> FoldCase(s[i])]
        sep(c) == IsReSpace(c) \/ c \in {"\"", "'", "-"}
    IN  \E w \in 1..Len(words) : \E i \in 1..Len(f) :
            /\ MatchesAt(f, words[w], i)
            /\ i = 1 \/ sep(f[i - 1])
            /\ i + Len(words[w]) > Len(f) \/ sep(f[i + Len(words[w])])

RemoveKnownWidgets(d) ==
    LET exact(t, k) == \E c \in 1..Len(widgetExactClasses) :
                           HasClass(t, k, widgetExactClasses[c])
        d1 == RemoveNodes(d, SeqToSet(Find(d, Doc, exact)))
        widget(t, k) ==
            LET class == GetAttribute(t, k, "class")
                id == GetAttribute(t, k, "id")
            IN  /\ t[k].tag \notin {"article", "main", "body", "html"}
                /\ \/ \E c \in 1..Len(widgetExactClasses) :
                          Contains(<<" ">> \o class \o <<" ">>,
                                   <<" ">> \o widgetExactClasses[c] \o <<" ">>)
                   \/ id # <<>> /\ MatchesWidgetPattern(id)
    IN  RemoveEach(d1, Find(d1, Doc, AnyElement), widget)

\* first loop of StripUnlikelyCandidates: the unlikely tags without a
\* whitelisted class or id
StripUnlikelyTags(d) ==
    LET unlikely(t, k) ==
            ~(IsWhitelisted(GetAttribute(t, k, "class"))
                \/ IsWhitelisted(GetAttribute(t, k, "id")))
    IN  RemoveEach(d, FindTags(d, Doc, unlikelyTags), unlikely)

\* the sweep removing on the blacklist match alone
StripBlacklisted_MatchOnly(d) ==
    LET negative(t, k) ==
            LET combined == GetAttribute(t, k, "class") \o <<" ">>
                                \o GetAttribute(t, k, "id")
            IN  /\ t[k].tag \notin {"body", "html", "article", "main"}
                /\ ~IsWhitelisted(combined)
                /\ IsBlacklisted(combined)
    IN  RemoveEach(d, Find(d, Doc, AnyElement), negative)

\* second loop of StripUnlikelyCandidates: doc.Find("*").Each(...)
StripBlacklisted(d) ==
    LET negative(t, k) ==
            LET combined == GetAttribute(t, k, "class") \o <<" ">>
                                \o GetAttribute(t, k, "id")
            IN  /\ t[k].tag \notin {"body", "html", "article", "main"}
                /\ ~IsWhitelisted(combined)
                /\ IsBlacklisted(combined)
                /\ \/ GetTextLength(t, k) < 200
                   \/ RGt(CalculateLinkDensity(t, k), <<1, 2>>)
    IN  RemoveEach(d, Find(d, Doc, AnyElement), negative)

StripUnlikelyCandidates(d) == StripBlacklisted(StripUnlikelyTags(d))

\* The div of a [data-articlebody] element whose direct text nodes are
\* rewritten as paragraphs: div.SetHtml(newHTML)
ConvertArticleBodyDiv(d, div) ==
    LET big(t, k) == t[k].tag = "#text" /\ ByteLen(TrimSpace(t[k].text)) > 30
        skipped(t, k) ==
            LET class == GetAttribute(t, k, "class")
            IN  \/ Contains(class, <<"t","a","b","o","o","l","a">>) \/ Contains(class, <<"t","r","c","_">>)
                \/ Contains(class, <<"_","a","d">>) \/ Contains(class, <<"m","g","i","d">>)
        RECURSIVE go(_, _, _)
        go(t, ks, acc) ==
            IF ks = <<>> THEN [t EXCEPT ![div].kids = acc]
            ELSE LET k == Head(ks)
                     free == FreeNodes(t)
                 IN  IF t[k].tag = "#text"
                     THEN IF big(t, k)
                          THEN go([t EXCEPT ![k].text = TrimSpace(@),
                                            ![free[1]] = El("p", {}, <<k>>),
                                            ![free[2]] = Tx(<<"\n">>)],
                                  Tail(ks), acc \o <<free[1], free[2]>>)
                          ELSE go(t, Tail(ks), acc)
                     ELSE IF skipped(t, k) THEN go(t, Tail(ks), acc)
                     ELSE go([t EXCEPT ![free[1]] = Tx(<<"\n">>)],
                             Tail(ks), acc \o <<k, free[1]>>)
    IN  IF Len(SelectSeq(d[div].kids, LAMBDA k : big(d, k))) >= 3
        THEN go(d, d[div].kids, <<>>)
        ELSE d

ConvertDataArticleBodyToParagraphs(d) ==
    LET convert(t, ab) ==
            IF /\ ByteLen(TrimSpace(Text(t, ab))) > 200
               /\ FindTags(t, ab, {"p", "pre", "param", "picture", "progress"}) = <<>>
            THEN EachSetHtml(t, FindTags(t, ab, {"div"}), ConvertArticleBodyDiv)
            ELSE t
    IN  EachSetHtml(d, Find(d, Doc, LAMBDA t, k : HasAttribute(t, k, "data-articlebody")),
                    convert)

\* dom.IsBlockElement
BlockElements ==
    {"address", "article", "aside", "blockquote", "div", "dl", "fieldset",
     "figcaption", "figure", "footer", "form", "h1", "h2", "h3", "h4", "h5", "h6",
     "header", "hgroup", "hr", "li", "main", "nav", "noscript", "ol", "p", "pre",
     "section", "table", "ul"}

hasBlockChild(d, n) ==
    \E i \in 1..Len(Children(d, n)) : d[Children(d, n)[i]].tag \in BlockElements

\* sel.SetHtml("<p>" + html + "</p>"): a new p takes over the content of sel
convertToP(d, n) ==
    IF d[n].kids = <<>> THEN d
    ELSE LET p == FreeNodes(d)[1]
         IN  [d EXCEPT ![p] = El("p", {}, d[n].kids), ![n].kids = <<p>>]

\* The documents of the model hold no br element, so the second pass of
\* ConvertToParagraphs (a div whose markup contains "<br") finds nothing.
ConvertToParagraphs(d) ==
    LET step(t, k) ==
            IF ~hasBlockChild(t, k) /\ ByteLen(GetText(t, k)) > 0
            THEN convertToP(t, k)
            ELSE t
    IN  EachSetHtml(d, FindTags(d, Doc, {"div", "span"}), step)

Preprocess(d) ==
    ConvertToParagraphs(
        ConvertDataArticleBodyToParagraphs(
            StripUnlikelyCandidates(
                RemoveKnownWidgets(
                    RemoveHiddenElements(
                        RemoveUnwantedTags(d))))))

-----------------------------------------------------------------------------
(* Scoring: NodeScore, ScoreMap, propagation, refinement, selection.       *)

NewNodeScore(sel) ==
    [Selection |-> sel, ContentScore |-> <<0, 1>>, Weight |-> 0,
     LinkDensity |-> <<0, 1>>, TextLength |-> 0]

GetWeightedScore(ns) == RAdd(ns.ContentScore, <<ns.Weight, 1>>)

\* one ceiling for every weight
IsHighLinkDensity_OneCeiling(ns) == RGt(ns.LinkDensity, HighWeightLinkDensityMax)

IsHighLinkDensity(ns) ==
    IF ns.Weight >= 0
    THEN RGt(ns.LinkDensity, HighWeightLinkDensityMax)
    ELSE RGt(ns.LinkDensity, LowWeightLinkDensityMax)

hasHNews(d, n) ==
    \/ HasClass(d, n, <<"h","e","n","t","r","y">>) \/ HasClass(d, n, <<"h","-","e","n","t","r","y">>)
    \/ HasClass(d, n, <<"e","n","t","r","y","-","c","o","n","t","e","n","t">>)
    \/ /\ HasAttribute(d, n, "itemtype")
       /\ GetAttribute(d, n, "itemtype") \in
              { <<"h","t","t","p",":","/","/","s","c","h","e","m","a",".","o","r","g","/","A","r","t","i","c","l","e">>, <<"h","t","t","p","s",":","/","/","s","c","h","e","m","a",".","o","r","g","/","A","r","t","i","c","l","e">>,
                <<"h","t","t","p",":","/","/","s","c","h","e","m","a",".","o","r","g","/","N","e","w","s","A","r","t","i","c","l","e">>, <<"h","t","t","p","s",":","/","/","s","c","h","e","m","a",".","o","r","g","/","N","e","w","s","A","r","t","i","c","l","e">> }

initializeNodeScore(ns, d, n) ==
    [ns EXCEPT
        !.ContentScore =
            RAdd(RAdd(@, <<GetTagScore(d[n].tag), 1>>),
                 <<IF hasHNews(d, n) THEN HNewsBonus ELSE 0, 1>>),
        !.Weight = GetWeight(GetAttribute(d, n, "class"), GetAttribute(d, n, "id")),
        !.LinkDensity = CalculateLinkDensity(d, n),
        !.TextLength = GetTextLength(d, n)]

\* ScoreMap.Get: the entry of the node, created when the map has none
Get(sm, n) ==
    IF \E i \in 1..Len(sm) : sm[i].Selection = n THEN sm
    ELSE Append(sm, NewNodeScore(n))

\* the parent and the grandparent branch of the PropagateScores callback:
\* Get, initialize when ContentScore == 0, AddScore
AddPropagated(d, sm, n, amount) ==
    IF n = 0 THEN sm
    ELSE LET sm1 == Get(sm, n)
             i == CHOOSE j \in 1..Len(sm1) : sm1[j].Selection = n
             ns == IF sm1[i].ContentScore[1] = 0
                   THEN initializeNodeScore(sm1[i], d, n)
                   ELSE sm1[i]
         IN  [sm1 EXCEPT ![i] = [ns EXCEPT !.ContentScore = RAdd(@, amount)]]

\* the callback without the early return on a zero paragraph score
PropagateParagraph_NoSkip(d, sm, p, minParagraphLength) ==
    LET paragraphScore == <<ScoreParagraph(Text(d, p), minParagraphLength), 1>>
        parent == Parent(d, p)
        grandparent == IF parent = 0 THEN 0 ELSE Parent(d, parent)
    IN  AddPropagated(d,
            AddPropagated(d, sm, parent, RMul(paragraphScore, ParentScoreProportion)),
            grandparent, RMul(paragraphScore, GrandparentScoreProportion))

\* the callback of doc.Find("p, pre").Each in PropagateScores
PropagateParagraph(d, sm, p, minParagraphLength) ==
    LET paragraphScore == <<ScoreParagraph(Text(d, p), minParagraphLength), 1>>
        parent == Parent(d, p)
        grandparent == IF parent = 0 THEN 0 ELSE Parent(d, parent)
    IN  IF paragraphScore[1] = 0 THEN sm
        ELSE AddPropagated(d,
                 AddPropagated(d, sm, parent, RMul(paragraphScore, ParentScoreProportion)),
                 grandparent, RMul(paragraphScore, GrandparentScoreProportion))

PropagateScores(d, scores, minParagraphLength) ==
    LET RECURSIVE go(_, _)
        go(sm, ps) ==
            IF ps = <<>> THEN sm
            ELSE go(PropagateParagraph(d, sm, Head(ps), minParagraphLength), Tail(ps))
    IN  go(scores, FindTags(d, Doc, {"p", "pre"}))

ScoreAndPropagate(d, minParagraphLength) == PropagateScores(d, <<>>, minParagraphLength)

RefineScores(sm) ==
    [i \in 1..Len(sm) |->
        IF IsHighLinkDensity(sm[i])
        THEN [sm[i] EXCEPT !.ContentScore = RMul(@, RSub(<<1, 1>>, sm[i].LinkDensity))]
        ELSE sm[i]]

\* the orders in which a range over the Go map may visit its entries
IterationOrders(sm) ==
    {o \in [1..Len(sm) -> 1..Len(sm)] : \A i, j \in 1..Len(sm) : o[i] = o[j] => i = j}

\* ScoreMap.GetTopCandidate for one iteration order: an entry index, 0 for nil
GetTopCandidate(sm, order) ==
    LET RECURSIVE go(_, _, _)
        go(k, top, topScore) ==
            IF k > Len(order) THEN top
            ELSE LET score == GetWeightedScore(sm[order[k]])
                 IN  IF RGt(score, topScore) THEN go(k + 1, order[k], score)
                     ELSE go(k + 1, top, topScore)
    IN  go(1, 0, <<-1, 1>>)

\* ScoreMap.GetCandidatesByScore for one iteration order
GetCandidatesByScore(sm, order) ==
    LET swap(c, i, j) == [c EXCEPT ![i] = c[j], ![j] = c[i]]
        RECURSIVE inner(_, _, _)
        inner(c, i, j) ==
            IF j > Len(c) THEN c
            ELSE inner(IF RGt(GetWeightedScore(c[j]), GetWeightedScore(c[i]))
                       THEN swap(c, i, j) ELSE c, i, j + 1)
        RECURSIVE outer(_, _)
        outer(c, i) == IF i > Len(c) THEN c ELSE outer(inner(c, i, i + 1), i + 1)
    IN  outer([k \in 1..Len(order) |-> sm[order[k]]], 1)

\* calculateConfidence whose last score bucket adds nothing
calculateConfidence_NoBase(top, candidates, wordCount) ==
    LET score == top.ContentScore
        s == IF RGt(score, <<100, 1>>) THEN 4 ELSE IF RGt(score, <<50, 1>>) THEN 3
             ELSE IF RGt(score, <<20, 1>>) THEN 2 ELSE 0
        w == IF wordCount > 500 THEN 3 ELSE IF wordCount > 200 THEN 2
             ELSE IF wordCount > 100 THEN 1 ELSE 0
        l == IF RLt(top.LinkDensity, <<1, 10>>) THEN 2
             ELSE IF RLt(top.LinkDensity, <<1, 5>>) THEN 1 ELSE 0
        m == IF Len(candidates) >= 2
                /\ RGt(score, RMul(candidates[2].ContentScore, <<2, 1>>))
             THEN 1 ELSE 0
        confidence == Rat(s + w + l + m, 10)
    IN  IF RGt(confidence, <<1, 1>>) THEN <<1, 1>> ELSE confidence

\* Extractor.calculateConfidence, the sum kept in exact tenths
calculateConfidence(top, candidates, wordCount) ==
    LET score == top.ContentScore
        s == IF RGt(score, <<100, 1>>) THEN 4 ELSE IF RGt(score, <<50, 1>>) THEN 3
             ELSE IF RGt(score, <<20, 1>>) THEN 2 ELSE 1
        w == IF wordCount > 500 THEN 3 ELSE IF wordCount > 200 THEN 2
             ELSE IF wordCount > 100 THEN 1 ELSE 0
        l == IF RLt(top.LinkDensity, <<1, 10>>) THEN 2
             ELSE IF RLt(top.LinkDensity, <<1, 5>>) THEN 1 ELSE 0
        m == IF Len(candidates) >= 2
                /\ RGt(score, RMul(candidates[2].ContentScore, <<2, 1>>))
             THEN 1 ELSE 0
        confidence == Rat(s + w + l + m, 10)
    IN  IF RGt(confidence, <<1, 1>>) THEN <<1, 1>> ELSE confidence

-----------------------------------------------------------------------------
(* cleaner.MergeSiblings, Clone, cleaner.Postprocess, URL conversion.      *)

scoreSibling(d, sibling, minParagraphLength) ==
    LET ps == FindTags(d, sibling, {"p", "pre"})
    IN  SumSeq([i \in 1..Len(ps) |-> ScoreParagraph(Text(d, ps[i]), minParagraphLength)])

shouldMergeSibling(d, sibling, threshold, minParagraphLength) ==
    IF d[sibling].tag = "p"
    THEN /\ GetTextLength(d, sibling) >= minParagraphLength
         /\ RLt(CalculateLinkDensity(d, sibling), <<1, 5>>)
    ELSE /\ GetWeight(GetAttribute(d, sibling, "class"),
                      GetAttribute(d, sibling, "id")) >= 0
         /\ ~RGt(CalculateLinkDensity(d, sibling), <<1, 4>>)
         /\ ~RLt(<<scoreSibling(d, sibling, minParagraphLength), 1>>, threshold)

\* MergeSiblings: the selection it returns
MergeSiblings(d, top, topScore, minParagraphLength) ==
    LET threshold == GetSiblingThreshold(topScore)
        parent == Parent(d, top)
        \* goquery.NewDocumentFromNode(topCandidate.Nodes[0]).Find("body")
        contentDiv == FindTags(d, top, {"body"})
        mergedContent ==
            SelectSeq(Children(d, parent),
                LAMBDA s : s = top
                           \/ shouldMergeSibling(d, s, threshold, minParagraphLength))
    IN  IF top = 0 THEN top
        ELSE IF parent = 0 THEN top
        ELSE IF contentDiv = <<>> THEN top
        ELSE IF Len(mergedContent) > 1 THEN Parent(d, top)
        ELSE top

\* sel.Clone(): a deep copy of the subtree, detached from the document
Clone(d, n) ==
    [m \in Nodes |-> IF m \in SeqToSet(Preorder(d, n)) THEN d[m] ELSE EmptyNode]

\* the cleaning stage run on contentSel itself: every node of the selected
\* subtree is a node of the document
CloneAliases_Shallow(d, n) == SeqToSet(Preorder(d, n))

\* the nodes of the document that contentSel.Clone() shares with it: goquery
\* copies every node of the subtree (cloneNode), so none
CloneAliases(d, n) == {}

unwantedPatterns == <<
    <<"s","h","a","r","e">>, <<"s","o","c","i","a","l">>, <<"c","o","m","m","e","n","t">>, <<"r","e","l","a","t","e","d">>, <<"r","e","c","o","m","m","e","n","d">>, <<"n","e","w","s","l","e","t","t","e","r">>,
    <<"s","u","b","s","c","r","i","b","e">>, <<"p","r","o","m","o">>, <<"a","d","-">>, <<"a","d","v","e","r","t","i","s","e","m","e","n","t">> >>

RemoveUnwantedFromContent(c, sel) ==
    LET c1 == RemoveNodes(c, SeqToSet(FindTags(c, sel, {"script", "style", "noscript"})))
        \* sel.Find("[class*='pattern'], [id*='pattern']")
        unwanted(t, k) ==
            \E p \in 1..Len(unwantedPatterns) :
                \/ Contains(GetAttribute(t, k, "class"), unwantedPatterns[p])
                \/ Contains(GetAttribute(t, k, "id"), unwantedPatterns[p])
        c2 == RemoveNodes(c1, SeqToSet(Find(c1, sel, unwanted)))
        emptyLink(t, k) ==
            TrimSpace(Text(t, k)) = <<>> /\ FindTags(t, k, {"img"}) = <<>>
    IN  RemoveEach(c2, FindTags(c2, sel, {"a"}), emptyLink)

\* an allow-list that lets class through on every element
allowedAttributes_KeepClass(tag) ==
    CASE tag = "a" -> {"href", "title", "class"}
      [] tag = "img" -> {"src", "alt", "title", "width", "height", "class"}
      [] OTHER -> {"class"}

allowedAttributes(tag) ==
    CASE tag = "a" -> {"href", "title"}
      [] tag = "img" -> {"src", "alt", "title", "width", "height"}
      [] OTHER -> {}

CleanAttributes(c, sel) ==
    LET found == SeqToSet(Find(c, sel, AnyElement))
    IN  [m \in Nodes |->
            IF m \in found
            THEN [c[m] EXCEPT !.attrs = {a \in @ : a[1] \in allowedAttributes(c[m].tag)}]
            ELSE c[m]]

\* the markup is blank as it stands, its tags not removed: no child element
isOnlyWhitespace_KeepTags(c, n) ==
    /\ \A i \in 1..Len(c[n].kids) : c[c[n].kids[i]].tag = "#text"
    /\ \A i \in 1..Len(Text(c, n)) : IsUniSpace(Text(c, n)[i]) /\ Text(c, n)[i] # "\r"

\* isOnlyWhitespace(el.Html()): the markup without its tags is blank; the
\* serializer writes a carriage return of a text node as "&#13;"
isOnlyWhitespace(c, n) ==
    \A i \in 1..Len(Text(c, n)) : IsUniSpace(Text(c, n)[i]) /\ Text(c, n)[i] # "\r"

\* three passes that remove only elements without any child
RemoveEmptyElements_LeavesOnly(c, sel) ==
    LET empty(t, k) == t[k].tag \notin {"br", "hr", "img"} /\ t[k].kids = <<>>
        pass(t) == RemoveEach(t, Find(t, sel, AnyElement), empty)
    IN  pass(pass(pass(c)))

RemoveEmptyElements(c, sel) ==
    LET empty(t, k) ==
            /\ t[k].tag \notin {"br", "hr", "img"}
            /\ TrimSpace(Text(t, k)) = <<>>
            /\ t[k].kids = <<>> \/ isOnlyWhitespace(t, k)
        pass(t) == RemoveEach(t, Find(t, sel, AnyElement), empty)
    IN  pass(pass(pass(c)))

Postprocess(c, sel) ==
    RemoveEmptyElements(CleanAttributes(RemoveUnwantedFromContent(c, sel), sel), sel)

isAbsoluteURL(url) ==
    \/ MatchesAt(url, <<"h","t","t","p",":","/","/">>, 1)
    \/ MatchesAt(url, <<"h","t","t","p","s",":","/","/">>, 1)
    \/ MatchesAt(url, <<"/","/">>, 1)

resolveURL(base, relative) ==
    IF MatchesAt(relative, <<"/","/">>, 1)
    THEN (IF MatchesAt(base, <<"h","t","t","p","s",":">>, 1) THEN <<"h","t","t","p","s",":">> ELSE <<"h","t","t","p",":">>) \o relative
    ELSE IF MatchesAt(relative, <<"/">>, 1)
    THEN LET idx == Index(base, <<":","/","/">>)
             hostEnd == Index(SubSeq(base, idx + 4, Len(base)), <<"/">>)
         IN  IF idx # -1
             THEN IF hostEnd # -1
                  THEN SubSeq(base, 1, idx + 3 + hostEnd) \o relative
                  ELSE base \o relative
             ELSE relative
    ELSE LET idx == LastIndex(base, <<"/">>)
         IN  IF idx # -1 THEN SubSeq(base, 1, idx + 1) \o relative
             ELSE base \o <<"/">> \o relative

ConvertRelativeURLs(c, sel, base) ==
    LET links == SeqToSet(Find(c, sel, LAMBDA t, k : t[k].tag = "a" /\ HasAttribute(t, k, "href")))
        imgs == SeqToSet(Find(c, sel, LAMBDA t, k : t[k].tag = "img" /\ HasAttribute(t, k, "src")))
        fix(node, name) ==
            LET url == (CHOOSE a \in node.attrs : a[1] = name)[2]
            IN  IF url # <<>> /\ ~isAbsoluteURL(url)
                THEN [node EXCEPT !.attrs = {a \in @ : a[1] # name}
                                              \cup {<<name, resolveURL(base, url)>>}]
                ELSE node
    IN  IF base = <<>> THEN c
        ELSE [m \in Nodes |->
                IF m \in links THEN fix(c[m], "href")
                ELSE IF m \in imgs THEN fix(c[m], "src")
                ELSE c[m]]

\* sel.Html() trimmed: the markup of the children of sel, as the sequence of
\* its start tags, texts and end tags
GetCleanHTML(c, sel) ==
    LET tok(kind, n) == [kind |-> kind, tag |-> c[n].tag, attrs |-> c[n].attrs,
                         text |-> c[n].text]
        RECURSIVE render(_)
        render(ks) ==
            IF ks = <<>> THEN <<>>
            ELSE LET n == Head(ks)
                 IN  (IF c[n].tag = "#text" THEN <<tok("text", n)>>
                      ELSE IF c[n].tag \in {"br", "hr", "img"} THEN <<tok("void", n)>>
                      ELSE <<tok("start", n)>> \o render(c[n].kids) \o <<tok("end", n)>>)
                     \o render(Tail(ks))
        blank(t) == t.kind = "text" /\ TrimSpace(t.text) = <<>>
        html == render(c[sel].kids)
        ns == SelectSeq(Idx(html), LAMBDA i : ~blank(html[i]))
        \* strings.TrimSpace: blank texts at either end go, the first and the
        \* last text lose their outer white space
        trimmed(i) ==
            IF html[i].kind # "text" THEN html[i]
            ELSE LET t == html[i].text
                     keep == SelectSeq(Idx(t), LAMBDA j : ~IsUniSpace(t[j]))
                 IN  [html[i] EXCEPT !.text =
                        SubSeq(t, IF i = ns[1] THEN keep[1] ELSE 1,
                                  IF i = ns[Len(ns)] THEN keep[Len(keep)] ELSE Len(t))]
    IN  IF ns = <<>> THEN <<>>
        ELSE [k \in 1..(ns[Len(ns)] - ns[1] + 1) |-> trimmed(ns[1] + k - 1)]

GetCleanText(c, sel) == NormalizeTextPreserveNewlines(Text(c, sel))

-----------------------------------------------------------------------------
(* metadata: title, author, publication date, lead image; dom.GetExcerpt.  *)
(* The extractors only read the document.                                  *)

Quote == <<"\"">>

\* getMetaContent: the last meta[property='...'] with a non-empty content,
\* else the last meta[name='...'] with one
getMetaContent(d, property) ==
    LET last(name) ==
            LET ms == Find(d, Doc, LAMBDA t, k :
                          /\ t[k].tag = "meta"
                          /\ GetAttribute(t, k, name) = property
                          /\ GetAttribute(t, k, "content") # <<>>)
            IN  IF ms = <<>> THEN <<>> ELSE GetAttribute(d, ms[Len(ms)], "content")
    IN  IF last("property") # <<>> THEN last("property") ELSE last("name")

\* the string scan the JSON-LD readers share: the key, the next ':', and a
\* double-quoted value up to the next '"'.  found is FALSE unless it ends
\* with the assignment of the value
JSONString(text, key) ==
    LET idx == Index(text, key)
        rest == SubSeq(text, idx + Len(key) + 1, Len(text))
        colonIdx == Index(rest, <<":">>)
        valueRest == TrimSpace(SubSeq(rest, colonIdx + 2, Len(rest)))
        endIdx == Index(Tail(valueRest), Quote)
    IN  IF idx = -1 \/ colonIdx = -1 \/ valueRest = <<>>
        THEN [found |-> FALSE, value |-> <<>>]
        ELSE IF valueRest[1] # "\"" \/ endIdx = -1
        THEN [found |-> FALSE, value |-> <<>>]
        ELSE [found |-> TRUE, value |-> SubSeq(Tail(valueRest), 1, endIdx)]

\* doc.Find("script[type='application/ld+json']"), as the texts of the scripts
JSONLDScripts(d) ==
    LET ss == Find(d, Doc, LAMBDA t, k :
                  t[k].tag = "script" /\ GetAttribute(t, k, "type") = <<"a","p","p","l","i","c","a","t","i","o","n","/","l","d","+","j","s","o","n">>)
    IN  [i \in 1..Len(ss) |-> Text(d, ss[i])]

\* TrimSpace(Text()) of the first element of a selection with a non-blank
\* text, "" when there is none: the loops "if x == "" { x = TrimSpace(sel.Text()) }"
FirstText(d, sel) ==
    LET ts == SelectSeq([i \in 1..Len(sel) |-> TrimSpace(Text(d, sel[i]))],
                        LAMBDA s : s # <<>>)
    IN  IF ts = <<>> THEN <<>> ELSE ts[1]

\* the descendant combinator "container h1": an ancestor element of k
\* satisfies the container selector
ArticleLike(d, a) ==
    \/ d[a].tag = "article"
    \/ GetAttribute(d, a, "role") = <<"a","r","t","i","c","l","e">>
    \/ HasClass(d, a, <<"a","r","t","i","c","l","e">>)
    \/ HasClass(d, a, <<"p","o","s","t">>)

InArticleLike(d, k) ==
    \E a \in Nodes : /\ IsElement(d, a)
                     /\ ArticleLike(d, a)
                     /\ k \in SeqToSet(Descendants(d, a))

titleSeparators == <<
    <<" ","|"," ">>, <<" ","-"," ">>, <<" ",":",":"," ">>, <<" ","/"," ">>, <<" ", "raquo", " ">>, <<" ", "mdash", " ">>,
    <<" ", "middot", " ">> >>

\* cleanTitle: len() of the two sides is their length in bytes
cleanTitle(title0) ==
    LET RECURSIVE strip(_, _)
        strip(title, k) ==
            IF k > Len(titleSeparators) THEN title
            ELSE LET sep == titleSeparators[k]
                     idx == LastIndex(title, sep)
                     before == SubSeq(title, 1, idx)
                     after == SubSeq(title, idx + Len(sep) + 1, Len(title))
                 IN  IF idx = -1 THEN strip(title, k + 1)
                     ELSE IF ByteLen(before) > ByteLen(after) * 2
                     THEN strip(TrimSpace(before), k + 1)
                     ELSE IF ByteLen(after) > ByteLen(before) * 2
                     THEN strip(TrimSpace(after), k + 1)
                     ELSE strip(title, k + 1)
    IN  strip(CollapseWhitespace(TrimSpace(title0)), 1)

getSchemaHeadline(d) ==
    LET js == JSONLDScripts(d)
        vs == SelectSeq([i \in 1..Len(js) |-> JSONString(js[i], Quote \o <<"h","e","a","d","l","i","n","e">> \o Quote).value],
                        LAMBDA s : s # <<>>)
    IN  IF vs # <<>> THEN vs[1]
        ELSE FirstText(d, Find(d, Doc, LAMBDA t, k :
                                  GetAttribute(t, k, "itemprop") = <<"h","e","a","d","l","i","n","e">>))

ExtractTitle(d) ==
    LET h1s == FindTags(d, Doc, {"h1"})
        chain == <<
            getMetaContent(d, <<"o","g",":","t","i","t","l","e">>),
            getMetaContent(d, <<"t","w","i","t","t","e","r",":","t","i","t","l","e">>),
            getSchemaHeadline(d),
            \* getArticleH1
            FirstText(d, SelectSeq(h1s, LAMBDA k : InArticleLike(d, k))),
            \* getFirstH1
            FirstText(d, h1s),
            \* getTitleTag: the texts of all title elements, concatenated
            LET ts == FindTags(d, Doc, {"title"})
                RECURSIVE cat(_)
                cat(l) == IF l = <<>> THEN <<>> ELSE Text(d, Head(l)) \o cat(Tail(l))
            IN  TrimSpace(cat(ts)) >>
        found == SelectSeq(chain, LAMBDA s : s # <<>>)
    IN  IF found = <<>> THEN <<>> ELSE cleanTitle(found[1])

authorPrefixes == <<<<"B","y"," ">>, <<"b","y"," ">>, <<"B","Y"," ">>, <<"W","r","i","t","t","e","n"," ","b","y"," ">>, <<"A","u","t","h","o","r",":"," ">>, <<"P","o","s","t","e","d"," ","b","y"," ">>>>

\* strings.TrimPrefix with the first prefix of authorPrefixes the text has;
\* none: the text itself
TrimAuthorPrefix(s) ==
    LET ps == SelectSeq(authorPrefixes, LAMBDA p : MatchesAt(s, p, 1))
    IN  IF ps = <<>> THEN s ELSE SubSeq(s, Len(ps[1]) + 1, Len(s))

cleanAuthor(author) == TrimSpace(TrimAuthorPrefix(CollapseWhitespace(TrimSpace(author))))

\* for each selector of the list, TrimSpace(doc.Find(selector).First().Text()),
\* "" when the selector selects nothing
FirstTexts(d, selectors) ==
    LET es(s) == Find(d, Doc, LAMBDA t, k :
                     CASE s.kind = "class" -> HasClass(t, k, s.v)
                       [] s.kind = "tagclass" -> t[k].tag = s.tag /\ HasClass(t, k, s.v)
                       [] s.kind = "attr" -> GetAttribute(t, k, s.name) = s.v
                       [] OTHER -> Contains(GetAttribute(t, k, "class"), s.v))
    IN  [i \in 1..Len(selectors) |->
            IF es(selectors[i]) = <<>> THEN <<>> ELSE TrimSpace(Text(d, es(selectors[i])[1]))]

ClassSelectors(names) == [i \in 1..Len(names) |-> [kind |-> "class", v |-> names[i]]]

getSchemaAuthor(d) ==
    LET js == JSONLDScripts(d)
        \* the name that follows "author", else the one that follows "creator"
        name(text) ==
            LET at(pattern) ==
                    LET idx == Index(text, Quote \o pattern \o Quote)
                    IN  IF idx = -1 THEN [found |-> FALSE, value |-> <<>>]
                        ELSE JSONString(SubSeq(text, idx + 1, Len(text)),
                                        Quote \o <<"n","a","m","e">> \o Quote)
            IN  IF at(<<"a","u","t","h","o","r">>).found THEN at(<<"a","u","t","h","o","r">>).value ELSE at(<<"c","r","e","a","t","o","r">>).value
        vs == SelectSeq([i \in 1..Len(js) |-> name(js[i])], LAMBDA s : s # <<>>)
        itemprop(v) == Find(d, Doc, LAMBDA t, k : GetAttribute(t, k, "itemprop") = v)
        nested(a) == SelectSeq(itemprop(<<"n","a","m","e">>), LAMBDA k : k \in SeqToSet(Descendants(d, a)))
        RECURSIVE cat(_)
        cat(l) == IF l = <<>> THEN <<>> ELSE Text(d, Head(l)) \o cat(Tail(l))
        texts == SelectSeq([i \in 1..Len(itemprop(<<"a","u","t","h","o","r">>)) |->
                               LET a == itemprop(<<"a","u","t","h","o","r">>)[i]
                               IN  IF nested(a) # <<>> THEN TrimSpace(cat(nested(a)))
                                   ELSE TrimSpace(Text(d, a))],
                           LAMBDA s : s # <<>>)
    IN  IF vs # <<>> THEN vs[1]
        ELSE IF texts # <<>> THEN texts[1]
        ELSE <<>>

\* extractAuthorFromByline: bylineRegex (?i)^[\s]*by[\s]+(.+?)[\s]*$, else a
\* known prefix is removed and the rest cut at the first delimiter
extractAuthorFromByline(byline) ==
    LET lead == SelectSeq(Idx(byline), LAMBDA i : ~IsReSpace(byline[i]))
        b == IF lead = <<>> THEN <<>> ELSE SubSeq(byline, lead[1], Len(byline))
        afterBy == SubSeq(b, 3, Len(b))
        name == SelectSeq(Idx(afterBy), LAMBDA i : ~IsReSpace(afterBy[i]))
        matches == /\ Len(b) >= 3
                   /\ FoldCase(b[1]) = "b" /\ FoldCase(b[2]) = "y"
                   /\ IsReSpace(afterBy[1])
                   /\ name # <<>>
                   /\ \A i \in name[1]..name[Len(name)] : afterBy[i] # "\n"
        delims == <<<<",">>, <<"|">>, <<"Acirc", "middot">>, <<" ","o","n"," ">>, <<" ","-"," ">>>>
        RECURSIVE cut(_, _)
        cut(author, k) ==
            IF k > Len(delims) THEN author
            ELSE cut(IF Index(author, delims[k]) # -1
                     THEN SubSeq(author, 1, Index(author, delims[k]))
                     ELSE author, k + 1)
    IN  IF matches THEN TrimSpace(SubSeq(afterBy, name[1], name[Len(name)]))
        ELSE IF TrimAuthorPrefix(byline) # byline \/ \E k \in 1..Len(authorPrefixes) : byline = authorPrefixes[k]
        THEN TrimSpace(cut(TrimAuthorPrefix(byline), 1))
        ELSE <<>>

ExtractAuthor(d) ==
    LET \* getAuthorBySelector
        texts == FirstTexts(d,
            ClassSelectors(<<<<"a","u","t","h","o","r","-","n","a","m","e">>, <<"a","u","t","h","o","r">>, <<"b","y","l","i","n","e","-","n","a","m","e">>, <<"b","y","l","i","n","e","_","_","n","a","m","e">>>>)
            \o <<[kind |-> "attr", name |-> "rel", v |-> <<"a","u","t","h","o","r">>]>>
            \o ClassSelectors(<<<<"e","n","t","r","y","-","a","u","t","h","o","r","-","n","a","m","e">>, <<"p","o","s","t","-","a","u","t","h","o","r","-","n","a","m","e">>,
                                <<"a","r","t","i","c","l","e","-","a","u","t","h","o","r">>, <<"a","r","t","i","c","l","e","_","_","a","u","t","h","o","r">>, <<"a","u","t","h","o","r","_","_","n","a","m","e">>>>)
            \o <<[kind |-> "tagclass", tag |-> "a", v |-> <<"a","u","t","h","o","r">>],
                 [kind |-> "tagclass", tag |-> "span", v |-> <<"a","u","t","h","o","r">>]>>)
        \* getAuthorByByline
        bylines == FirstTexts(d, ClassSelectors(<<<<"b","y","l","i","n","e">>, <<"b","y","-","l","i","n","e">>, <<"p","o","s","t","-","b","y","l","i","n","e">>,
                                                  <<"a","r","t","i","c","l","e","-","b","y","l","i","n","e">>, <<"m","e","t","a","-","a","u","t","h","o","r">>>>))
        chain == <<getMetaContent(d, <<"a","u","t","h","o","r">>), getMetaContent(d, <<"a","r","t","i","c","l","e",":","a","u","t","h","o","r">>),
                   getSchemaAuthor(d)>>
                 \o SelectSeq(texts, LAMBDA text : ByteLen(text) < 100)
                 \o [i \in 1..Len(bylines) |-> extractAuthorFromByline(bylines[i])]
        found == SelectSeq(chain, LAMBDA s : s # <<>>)
    IN  IF found = <<>> THEN <<>> ELSE cleanAuthor(found[1])

\* the layouts of dateFormats, as the chunks time.Parse cuts them into: a
\* standard chunk ("2006", "01", "02", "2", "15", "04", "05", "Z07:00",
\* "-07:00", "January", "Jan") or one literal character
dateFormats == <<
    <<"2006", "-", "01", "-", "02", "T", "15", ":", "04", ":", "05", "Z07:00">>,
    <<"2006", "-", "01", "-", "02", "T", "15", ":", "04", ":", "05", "Z">>,
    <<"2006", "-", "01", "-", "02", "T", "15", ":", "04", ":", "05", "-07:00">>,
    <<"2006", "-", "01", "-", "02", "T", "15", ":", "04", ":", "05">>,
    <<"2006", "-", "01", "-", "02", " ", "15", ":", "04", ":", "05">>,
    <<"2006", "-", "01", "-", "02">>,
    <<"January", " ", "2", ",", " ", "2006">>,
    <<"Jan", " ", "2", ",", " ", "2006">>,
    <<"02", " ", "January", " ", "2006">>,
    <<"02", " ", "Jan", " ", "2006">>,
    <<"2006", "/", "01", "/", "02">>,
    <<"01", "/", "02", "/", "2006">>,
    <<"02", "/", "01", "/", "2006">> >>

longMonthNames == <<
    <<"J","a","n","u","a","r","y">>, <<"F","e","b","r","u","a","r","y">>, <<"M","a","r","c","h">>, <<"A","p","r","i","l">>, <<"M","a","y">>, <<"J","u","n","e">>, <<"J","u","l","y">>,
    <<"A","u","g","u","s","t">>, <<"S","e","p","t","e","m","b","e","r">>, <<"O","c","t","o","b","e","r">>, <<"N","o","v","e","m","b","e","r">>, <<"D","e","c","e","m","b","e","r">> >>

IsDigit(c) == c \in {"0", "1", "2", "3", "4", "5", "6", "7", "8", "9"}
DigitValue(c) == CHOOSE v \in 0..9 : <<"0","1","2","3","4","5","6","7","8","9">>[v + 1] = c

\* a nil *time.Time
NoTime ==
    [year |-> 0, month |-> 0, day |-> 0, hour |-> 0, min |-> 0, sec |-> 0, zone |-> 0]

\* time.Parse(layout, value): the parsed time, NoTime for an error.  The
\* fraction of a second is read and dropped.
TimeParse(layout, value) ==
    LET \* the numeric chunks: field, fixed width of two digits, range
        numeric == [c \in {"01", "02", "2", "15", "04", "05"} |->
                       CASE c = "01" -> <<"month", TRUE, 1, 12>>
                         [] c = "02" -> <<"day", TRUE, 0, 99>>
                         [] c = "2" -> <<"day", FALSE, 0, 99>>
                         [] c = "15" -> <<"hour", FALSE, 0, 23>>
                         [] c = "04" -> <<"min", TRUE, 0, 59>>
                         [] c = "05" -> <<"sec", TRUE, 0, 59>>]
        \* getnum: <<number, digits consumed>>, <<-1, 0>> for an error
        getnum(v, fixed) ==
            IF v = <<>> \/ ~IsDigit(v[1]) THEN <<-1, 0>>
            ELSE IF Len(v) < 2 \/ ~IsDigit(v[2])
            THEN (IF fixed THEN <<-1, 0>> ELSE <<DigitValue(v[1]), 1>>)
            ELSE <<DigitValue(v[1]) * 10 + DigitValue(v[2]), 2>>
        \* lookup: the first month name the value starts with, in any case
        lookup(v, short) ==
            LET name(k) == IF short THEN SubSeq(longMonthNames[k], 1, 3)
                           ELSE longMonthNames[k]
                fold(s) == [i \in 1..Len(s) |-> FoldCase(s[i])]
                hits == SelectSeq([k \in 1..12 |-> k], LAMBDA k :
                            /\ Len(v) >= Len(name(k))
                            /\ fold(SubSeq(v, 1, Len(name(k)))) = fold(name(k)))
            IN  IF hits = <<>> THEN <<-1, 0>> ELSE <<hits[1], Len(name(hits[1]))>>
        cutspace(v) ==
            LET ns == SelectSeq(Idx(v), LAMBDA i : v[i] # " ")
            IN  IF ns = <<>> THEN <<>> ELSE SubSeq(v, ns[1], Len(v))
        \* the fraction after the seconds that the layout does not name
        fraction(v) ==
            IF Len(v) >= 2 /\ v[1] \in {".", ","} /\ IsDigit(v[2])
            THEN LET rest == SelectSeq(Idx(v), LAMBDA i : i > 1 /\ ~IsDigit(v[i]))
                 IN  IF rest = <<>> THEN <<>> ELSE SubSeq(v, rest[1], Len(v))
            ELSE v
        daysIn(month, year) ==
            IF month = 2
            THEN (IF year % 4 = 0 /\ (year % 100 # 0 \/ year % 400 = 0) THEN 29 ELSE 28)
            ELSE IF month \in {4, 6, 9, 11} THEN 30 ELSE 31
        \* a numeric zone: sign, two digits, ':', two digits
        zone(v) ==
            IF /\ Len(v) >= 6
               /\ v[1] \in {"+", "-"}
               /\ v[4] = ":"
               /\ \A i \in {2, 3, 5, 6} : IsDigit(v[i])
            THEN <<(IF v[1] = "-" THEN -1 ELSE 1)
                       * ((DigitValue(v[2]) * 10 + DigitValue(v[3])) * 60
                          + DigitValue(v[5]) * 10 + DigitValue(v[6])),
                   6>>
            ELSE <<-1, 0>>
        \* what one chunk reads: <<field, number, characters consumed>>, the
        \* number -1 for an error
        read(std, v) ==
            CASE std = "2006" ->
                    IF Len(v) < 4 \/ \E i \in 1..4 : ~IsDigit(v[i]) THEN <<"year", -1, 0>>
                    ELSE <<"year", DigitValue(v[1]) * 1000 + DigitValue(v[2]) * 100
                                   + DigitValue(v[3]) * 10 + DigitValue(v[4]), 4>>
              [] std \in DOMAIN numeric ->
                    LET g == getnum(v, numeric[std][2])
                    IN  IF g[1] < numeric[std][3] \/ g[1] > numeric[std][4]
                        THEN <<numeric[std][1], -1, 0>>
                        ELSE <<numeric[std][1], g[1], g[2]>>
              [] std \in {"January", "Jan"} ->
                    <<"month">> \o lookup(v, std = "Jan")
              [] std = "Z07:00" /\ v # <<>> /\ v[1] = "Z" -> <<"zone", 0, 1>>
              [] OTHER -> <<"zone">> \o zone(v)
        RECURSIVE parse(_)
        parse(a) ==
            IF a.l = <<>>
            THEN (IF a.v = <<>> /\ a.t.day >= 1 /\ a.t.day <= daysIn(a.t.month, a.t.year)
                  THEN a.t ELSE NoTime)
            ELSE IF a.l[1] = " "
            THEN (IF a.v # <<>> /\ a.v[1] # " " THEN NoTime
                  ELSE parse([a EXCEPT !.l = cutspace(@), !.v = cutspace(@)]))
            ELSE IF a.l[1] \in {"2006", "Z07:00", "-07:00", "January", "Jan"} \cup DOMAIN numeric
            THEN LET r == read(a.l[1], a.v)
                     rest == SubSeq(a.v, r[3] + 1, Len(a.v))
                 IN  IF r[2] = -1 THEN NoTime
                     ELSE parse([l |-> Tail(a.l),
                                 v |-> IF r[1] = "sec" THEN fraction(rest) ELSE rest,
                                 t |-> [a.t EXCEPT ![r[1]] = r[2]]])
            ELSE IF a.v = <<>> \/ a.v[1] # a.l[1] THEN NoTime
            ELSE parse([a EXCEPT !.l = Tail(@), !.v = Tail(@)])
    IN  parse([l |-> layout, v |-> value,
               t |-> [year |-> 0, month |-> 1, day |-> 1, hour |-> 0, min |-> 0, sec |-> 0,
                      zone |-> 0]])

\* stripTimezone: tzRegex \s+[A-Z]{3,4}$ replaced by ""
stripTimezone(dateStr) ==
    LET upper(c) == FoldCase(c) # c
        run(n) == /\ Len(dateStr) > n
                  /\ \A i \in (Len(dateStr) - n + 1)..Len(dateStr) : upper(dateStr[i])
                  /\ IsReSpace(dateStr[Len(dateStr) - n])
        cutAt(n) ==
            LET ns == SelectSeq(Idx(dateStr),
                                LAMBDA i : i <= Len(dateStr) - n /\ ~IsReSpace(dateStr[i]))
            IN  IF ns = <<>> THEN <<>> ELSE SubSeq(dateStr, 1, ns[Len(ns)])
    IN  IF run(3) THEN cutAt(3) ELSE IF run(4) THEN cutAt(4) ELSE dateStr

parseDate(dateStr0) ==
    LET dateStr == TrimSpace(dateStr0)
        \* every format on dateStr, then every format on stripTimezone(dateStr)
        n == Len(dateFormats)
        tries == [k \in 1..(2 * n) |->
                     TimeParse(dateFormats[((k - 1) % n) + 1],
                               IF k <= n THEN dateStr ELSE stripTimezone(dateStr))]
        parsed == SelectSeq(tries, LAMBDA t : t # NoTime)
    IN  IF dateStr = <<>> \/ parsed = <<>> THEN NoTime ELSE parsed[1]

\* getSchemaDate: the one string it hands to parseDate ("" when it finds none)
getSchemaDate(d) ==
    LET js == JSONLDScripts(d)
        \* the closure of the Each: dateStr of one script
        value(text) ==
            LET p == JSONString(text, Quote \o <<"d","a","t","e","P","u","b","l","i","s","h","e","d">> \o Quote)
            IN  IF p.found THEN p.value
                ELSE JSONString(text, Quote \o <<"d","a","t","e","C","r","e","a","t","e","d">> \o Quote).value
        vs == SelectSeq([i \in 1..Len(js) |-> value(js[i])], LAMBDA s : s # <<>>)
        es == Find(d, Doc, LAMBDA t, k : GetAttribute(t, k, "itemprop") = <<"d","a","t","e","P","u","b","l","i","s","h","e","d">>)
        item(k) == IF HasAttribute(d, k, "content") THEN GetAttribute(d, k, "content")
                   ELSE IF HasAttribute(d, k, "datetime") THEN GetAttribute(d, k, "datetime")
                   ELSE TrimSpace(Text(d, k))
        is == SelectSeq([i \in 1..Len(es) |-> item(es[i])], LAMBDA s : s # <<>>)
    IN  IF vs # <<>> THEN vs[1]
        ELSE IF is # <<>> THEN is[1]
        ELSE <<>>

\* ExtractDate: every step of the chain returns parseDate of a string it
\* found, and the first result that is not nil is returned
ExtractDate(d) ==
    LET \* getTimeElement: the datetime values of time[datetime], in order
        times == Find(d, Doc, LAMBDA t, k : t[k].tag = "time" /\ HasAttribute(t, k, "datetime"))
        \* getDateBySelector: the text of the first element of each selector
        texts == FirstTexts(d,
                    ClassSelectors(<<<<"p","o","s","t","-","d","a","t","e">>, <<"e","n","t","r","y","-","d","a","t","e">>, <<"a","r","t","i","c","l","e","-","d","a","t","e">>,
                                     <<"p","u","b","l","i","s","h","e","d","-","d","a","t","e">>, <<"p","u","b","l","i","s","h","-","d","a","t","e">>, <<"d","a","t","e","-","p","u","b","l","i","s","h","e","d">>,
                                     <<"m","e","t","a","-","d","a","t","e">>, <<"t","i","m","e","s","t","a","m","p">>>>)
                    \o <<[kind |-> "contains", v |-> <<"d","a","t","e">>]>>)
        chain == <<getMetaContent(d, <<"a","r","t","i","c","l","e",":","p","u","b","l","i","s","h","e","d","_","t","i","m","e">>),
                   getMetaContent(d, <<"d","a","t","e","P","u","b","l","i","s","h","e","d">>),
                   getMetaContent(d, <<"d","a","t","e">>),
                   getMetaContent(d, <<"D","C",".","d","a","t","e">>),
                   getSchemaDate(d)>>
                 \o [i \in 1..Len(times) |-> GetAttribute(d, times[i], "datetime")]
                 \o texts
        found == SelectSeq([i \in 1..Len(chain) |-> parseDate(chain[i])],
                           LAMBDA t : t # NoTime)
    IN  IF found = <<>> THEN NoTime ELSE found[1]

\* parseInt: the number the leading decimal digits spell, 0 when there is none
parseInt(s) ==
    LET nd == SelectSeq(Idx(s), LAMBDA i : ~IsDigit(s[i]))
        digits == IF nd = <<>> THEN s ELSE SubSeq(s, 1, nd[1] - 1)
        RECURSIVE value(_)
        value(k) == IF k = 0 THEN 0 ELSE value(k - 1) * 10 + DigitValue(digits[k])
    IN  value(Len(digits))

NoImage == [URL |-> <<>>, Width |-> 0, Height |-> 0, Alt |-> <<>>]

\* Extractor.extractLeadImage; NoImage for nil
extractLeadImage(d, base) ==
    LET \* doc.Find("meta[attr='v']").AttrOr("content", ""): of the first match
        metaAttr(attr, v) ==
            LET ms == Find(d, Doc, LAMBDA t, k :
                          t[k].tag = "meta" /\ GetAttribute(t, k, attr) = v)
            IN  IF ms = <<>> THEN <<>> ELSE GetAttribute(d, ms[1], "content")
        ogImage == metaAttr("property", <<"o","g",":","i","m","a","g","e">>)
        twitterImage == metaAttr("name", <<"t","w","i","t","t","e","r",":","i","m","a","g","e">>)
        \* "article img, .article img, .post img, main img"
        inside(k) == \E a \in Nodes :
                        /\ IsElement(d, a)
                        /\ d[a].tag \in {"article", "main"} \/ HasClass(d, a, <<"a","r","t","i","c","l","e">>)
                                                            \/ HasClass(d, a, <<"p","o","s","t">>)
                        /\ k \in SeqToSet(Descendants(d, a))
        src(k) == IF GetAttribute(d, k, "src") # <<>> THEN GetAttribute(d, k, "src")
                  ELSE GetAttribute(d, k, "data-src")
        image(k) == [URL |-> src(k), Alt |-> GetAttribute(d, k, "alt"),
                     Width |-> parseInt(GetAttribute(d, k, "width")),
                     Height |-> parseInt(GetAttribute(d, k, "height"))]
        large(k) == LET img == image(k)
                    IN  /\ img.URL # <<>>
                        /\ \/ img.Width >= 200
                           \/ img.Height >= 200
                           \/ img.Width = 0 /\ img.Height = 0
        imgs == SelectSeq(FindTags(d, Doc, {"img"}), LAMBDA k : inside(k) /\ large(k))
    IN  IF ogImage # <<>>
        THEN [NoImage EXCEPT !.URL = ogImage,
                             !.Width = parseInt(metaAttr("property", <<"o","g",":","i","m","a","g","e",":","w","i","d","t","h">>)),
                             !.Height = parseInt(metaAttr("property", <<"o","g",":","i","m","a","g","e",":","h","e","i","g","h","t">>))]
        ELSE IF twitterImage # <<>> THEN [NoImage EXCEPT !.URL = twitterImage]
        ELSE IF imgs # <<>> THEN image(imgs[1])
        ELSE NoImage

\* dom.GetExcerpt: the excerpt, or the run-time panic of a slice whose upper
\* bound is negative
GetExcerpt(text0, maxLength) ==
    LET text == NormalizeText(text0)
        range == ((maxLength \div 2) + 1)..maxLength
        dots == {p \in range : text[p] \in {".", "period"}}
        spaces == {p \in range : IsUniSpace(text[p])}
        last(S) == CHOOSE p \in S : \A q \in S : q <= p
        ok(s) == [panic |-> FALSE, s |-> s]
    IN  IF RuneCount(text) <= maxLength THEN ok(text)
        ELSE IF dots # {} THEN ok(SubSeq(text, 1, last(dots)))
        ELSE IF spaces # {} THEN ok(SubSeq(text, 1, last(spaces) - 1) \o <<".",".",".">>)
        ELSE IF maxLength - 3 < 0 THEN [panic |-> TRUE, s |-> <<>>]
        ELSE ok(SubSeq(text, 1, maxLength - 3) \o <<".",".",".">>)

\* the four extractions, started only after the preprocessor has run
ExtractMetadata_AfterPreprocess(d, base) ==
    [Title |-> ExtractTitle(Preprocess(d)),
     Author |-> ExtractAuthor(Preprocess(d)),
     PublishedAt |-> ExtractDate(Preprocess(d)),
     LeadImage |-> extractLeadImage(Preprocess(d), base),
     assigned |-> TRUE]

\* title := ...; author := ...; publishedAt := ...; leadImage := ...
ExtractMetadata(d, base) ==
    [Title |-> ExtractTitle(d),
     Author |-> ExtractAuthor(d),
     PublishedAt |-> ExtractDate(d),
     LeadImage |-> extractLeadImage(d, base),
     assigned |-> TRUE]

-----------------------------------------------------------------------------
(* Extractor.extractFromDocument, one action per stage of the call.        *)

DefaultConfig == [MinParagraphLength |-> 25, MinContentLength |-> 100]

\* WithMinContentLength(500) of the tests, and a permissive configuration
Configs ==
    { DefaultConfig,
      [MinParagraphLength |-> 25, MinContentLength |-> 500],
      [MinParagraphLength |-> 5, MinContentLength |-> 20] }

BaseURLs == { <<>>, <<"h","t","t","p",":","/","/","h","/","a","/","b">>, <<"h","t","t","p","s",":","/","/","s",".","h","/","a">> }

LongText == Rep(<<"w","o","r","d",","," ">>, 2) \o Rep(<<"w","o","r","d"," ">>, 22)
ShortText == Rep(<<"w","o","r","d"," ">>, 6)
TinyText == <<"S","h","o","r","t"," ","c","o","n","t","e","n","t",".">>
CommaText == Rep(<<"w","o","r","d",","," ">>, 10)
WideText == Rep(<<"x">>, 30) \o Rep(<<"cjk">>, 24)
LinesText == <<"o","n","e"," "," ","t","w","o">> \o Rep(<<"\n">>, 4) \o <<"\t">> \o LongText

\* <html><head></head><body><div wrap><div cand><p>t1</p><p p2>t2<a>link</a></p>
\* </div><sib>...</sib></div><nav>...</nav></body></html>
Page(p) ==
    LET opt(present, ks) == IF present THEN ks ELSE <<>>
        used == <<
            El("html", {}, <<2, 3>>),
            El("head", {}, <<>>),
            El("body", {}, opt(p.main, <<4>>) \o opt(p.nav, <<15>>)),
            El("div", p.wrapA, <<5>> \o opt(p.sibTag # "", <<12>>)),
            El("div", p.candA, <<6>> \o opt(p.t2 # <<>> \/ p.link # <<>>, <<8>>)),
            El("p", {}, <<7>>),
            Tx(p.t1),
            El("p", p.p2A, opt(p.t2 # <<>>, <<9>>) \o opt(p.link # <<>>, <<10>>)),
            Tx(p.t2),
            El("a", {<<"href", p.href>>}, <<11>>),
            Tx(p.link),
            El(p.sibTag, p.sibA, IF p.sibInner = "p" THEN <<13>> ELSE <<14>>),
            El("p", {}, <<14>>),
            Tx(p.ts),
            El("nav", {}, <<16>>),
            Tx(<<"N","a","v","i","g","a","t","i","o","n"," ","o","n","l","y">>) >>
        live == SeqToSet(Preorder([n \in 1..Len(used) |-> used[n]], Root))
    IN  [n \in Nodes |-> IF n \in live THEN used[n] ELSE EmptyNode]

Simple ==
    [main |-> TRUE, nav |-> FALSE, wrapA |-> {}, candA |-> {<<"class", kw_article>>},
     t1 |-> LongText, p2A |-> {}, t2 |-> <<>>, link |-> <<>>, href |-> <<>>,
     sibTag |-> "", sibA |-> {}, sibInner |-> "text", ts |-> <<>>]

Negative == {<<"class", <<"a","r","t","i","c","l","e","-","s","i","d","e","b","a","r">>>>, <<"id", kw_ad>>}

SamplePages ==
    { Simple,
      [Simple EXCEPT !.t1 = ShortText],
      [Simple EXCEPT !.t1 = TinyText],
      [Simple EXCEPT !.t1 = WideText],
      [Simple EXCEPT !.t1 = LinesText],
      [Simple EXCEPT !.main = FALSE, !.nav = TRUE],
      [Simple EXCEPT !.nav = TRUE],
      [Simple EXCEPT !.candA = {<<"class", <<"p","o","s","t"," ","h","e","n","t","r","y">>>>}],
      [Simple EXCEPT !.candA = {}, !.t1 = ShortText],
      [Simple EXCEPT !.wrapA = Negative, !.candA = Negative, !.t1 = ShortText],
      [Simple EXCEPT !.candA = {}, !.sibTag = "div", !.sibInner = "p", !.ts = LongText],
      [Simple EXCEPT !.sibTag = "p", !.ts = ShortText],
      [Simple EXCEPT !.sibTag = "p", !.ts = TinyText],
      [Simple EXCEPT !.sibTag = "div", !.sibInner = "p", !.ts = CommaText],
      [Simple EXCEPT !.sibTag = "div", !.sibInner = "p", !.ts = ShortText],
      [Simple EXCEPT !.sibTag = "div", !.ts = LongText],
      [Simple EXCEPT !.sibTag = "script", !.ts = LongText],
      [Simple EXCEPT !.sibTag = "aside", !.sibInner = "p", !.ts = LongText,
                     !.sibA = {<<"class", kw_content>>}],
      [Simple EXCEPT !.sibTag = "div", !.sibInner = "p", !.ts = LongText,
                     !.sibA = {<<"style", <<"D","I","S","P","L","A","Y"," ",":"," ","n","o","n","e">>>>}],
      [Simple EXCEPT !.sibTag = "div", !.sibInner = "p", !.ts = LongText,
                     !.sibA = {<<"class", <<"b","o","x"," ","a","i","-","c","h","a","t","b","o","t">>>>}],
      [Simple EXCEPT !.sibTag = "div", !.sibInner = "p", !.ts = LongText,
                     !.sibA = {<<"id", <<"x","-","a","s","k","-","a","i">>>>}],
      [Simple EXCEPT !.sibTag = "div", !.sibInner = "p", !.ts = LongText,
                     !.sibA = {<<"class", kw_sidebar>>}],
      [Simple EXCEPT !.t1 = ShortText, !.t2 = LongText,
                     !.p2A = {<<"class", <<"r","e","c","o","m","m","e","n","d">>>>}],
      [Simple EXCEPT !.t2 = <<" ">>, !.p2A = {<<"class", <<"l","e","a","d">>>>}],
      [Simple EXCEPT !.t1 = ShortText, !.link = LongText, !.href = <<"/","x">>],
      [Simple EXCEPT !.t2 = ShortText, !.link = ShortText, !.href = <<"y",".","h","t","m","l">>],
      [Simple EXCEPT !.t2 = ShortText, !.link = <<" ">>, !.href = <<"h","t","t","p","s",":","/","/","z","/">>],
      [Simple EXCEPT !.sibTag = "pre", !.ts = LongText],
      [Simple EXCEPT !.t1 = TinyText, !.sibTag = "pre", !.ts = TinyText] }

\* a [data-articlebody] page whose text sits in bare text nodes of a div
ArticleBodyPage ==
    LET used == <<
            El("html", {}, <<2, 3>>),
            El("head", {}, <<>>),
            El("body", {}, <<4>>),
            El("div", {<<"data-articlebody", <<"1">>>>}, <<5>>),
            El("div", {}, <<6, 7, 8>>),
            Tx(<<"\n">> \o Rep(<<"w","o","r","d"," ">>, 15)),
            Tx(Rep(<<"w","o","r","d",","," ">>, 12)),
            Tx(Rep(<<"w","o","r","d"," ">>, 15)) >>
    IN  [n \in Nodes |-> IF n <= Len(used) THEN used[n] ELSE EmptyNode]

\* a page that carries its metadata in the elements the preprocessor
\* removes: <head><meta og:title><meta og:image><script ld+json><title></head>
\* <body><header><h1/></header><article><p/><img></article><extra/></body>
MetaPage(m) ==
    LET opt(present, ks) == IF present THEN ks ELSE <<>>
        used == <<
            El("html", {}, <<2, 3>>),
            El("head", {}, opt(m.ogTitle # <<>>, <<4>>) \o opt(m.ogImage # <<>>, <<5>>)
                           \o opt(m.jsonld # <<>>, <<6>>) \o <<8>>),
            El("body", {}, opt(m.h1 # <<>>, <<10>>) \o <<13>> \o opt(m.extraTag # "", <<17>>)),
            El("meta", {<<"property", <<"o","g",":","t","i","t","l","e">>>>, <<"content", m.ogTitle>>}, <<>>),
            El("meta", {<<"property", <<"o","g",":","i","m","a","g","e">>>>, <<"content", m.ogImage>>}, <<>>),
            El("script", {<<"type", <<"a","p","p","l","i","c","a","t","i","o","n","/","l","d","+","j","s","o","n">>>>}, <<7>>),
            Tx(m.jsonld),
            El("title", {}, <<9>>),
            Tx(<<"P","a","g","e"," ","T","i","t","l","e"," ","-"," ","S","i","t","e">>),
            El("header", {}, <<11>>),
            El("h1", {}, <<12>>),
            Tx(m.h1),
            El("article", {}, <<14, 16>>),
            El("p", {}, <<15>>),
            Tx(LongText),
            El("img", {<<"src", <<"/","i",".","p","n","g">>>>, <<"width", <<"3","0","0">>>>, <<"alt", <<"P","h","o","t","o">>>>}, <<>>),
            El(m.extraTag, m.extraA, <<18>>),
            Tx(m.extraText) >>
        live == SeqToSet(Preorder([n \in 1..Len(used) |-> used[n]], Root))
    IN  [n \in Nodes |-> IF n \in live THEN used[n] ELSE EmptyNode]

JSONLD ==
    <<"{">> \o Quote \o <<"h","e","a","d","l","i","n","e">> \o Quote \o <<":"," ">> \o Quote \o <<"S","c","h","e","m","a"," ","H","e","a","d","l","i","n","e">> \o Quote
    \o <<","," ">> \o Quote \o <<"d","a","t","e","P","u","b","l","i","s","h","e","d">> \o Quote \o <<":">> \o Quote \o <<"2","0","2","4","-","0","3","-","2","0">> \o Quote
    \o <<","," ">> \o Quote \o <<"a","u","t","h","o","r">> \o Quote \o <<":"," ","{">> \o Quote \o <<"n","a","m","e">> \o Quote
    \o <<":"," ">> \o Quote \o <<"J","a","n","e"," ","D","o","e">> \o Quote \o <<"}","}">>

FullMeta ==
    [ogTitle |-> <<"O","g"," "," ","T","i","t","l","e"," ","|"," ","S","i","t","e">>, ogImage |-> <<"h","t","t","p",":","/","/","h","/","o","g",".","p","n","g">>, jsonld |-> JSONLD,
     h1 |-> <<"H","e","a","d","e","r"," ","H","e","a","d","l","i","n","e">>, extraTag |-> "span",
     extraA |-> {<<"class", <<"b","y","l","i","n","e">>>>, <<"hidden", <<>> >>}, extraText |-> <<"B","y"," ","J","o","h","n"," ","S","m","i","t","h">>]

SampleMetaPages ==
    { FullMeta,
      [FullMeta EXCEPT !.ogTitle = <<>>, !.ogImage = <<>>],
      [FullMeta EXCEPT !.ogTitle = <<>>, !.ogImage = <<>>, !.jsonld = <<>>],
      [FullMeta EXCEPT !.ogTitle = <<>>, !.jsonld = <<>>, !.h1 = <<>>, !.extraTag = "time",
                       !.extraA = {<<"datetime", <<"2","0","2","4","-","0","6","-","1","0","T","0","8",":","3","0",":","0","0","+","0","2",":","0","0">>>>},
                       !.extraText = <<"J","u","n","e"," ","1","0",","," ","2","0","2","4">>],
      [FullMeta EXCEPT !.ogTitle = <<>>, !.jsonld = <<>>, !.extraTag = "footer",
                       !.extraA = {<<"class", <<"p","o","s","t","-","d","a","t","e">>>>},
                       !.extraText = <<"J","a","n"," ","5",","," ","2","0","2","4"," ","E","S","T">>],
      [FullMeta EXCEPT !.ogTitle = <<>>, !.ogImage = <<>>, !.jsonld = <<>>, !.h1 = <<>>,
                       !.extraTag = ""] }

\* a page whose content needs cleaning: <div class="article" id="main">
\* <p class="lead">text<a href title rel class>more</a><img src alt width
\* data-src class></p><div class="box" id="b"><div><span><inner/></span></div>
\* </div><p>text<a href class> </a></p></div>
RichPage(r) ==
    LET opt(present, ks) == IF present THEN ks ELSE <<>>
        used == <<
            El("html", {}, <<2, 3>>),
            El("head", {}, <<>>),
            El("body", {}, <<4>>),
            El("div", {<<"class", kw_article>>, <<"id", <<"m","a","i","n">>>>},
               <<5>> \o opt(r.inner # "", <<10>>) \o <<14>>),
            El("p", {<<"class", <<"i","n","t","r","o">>>>}, <<6, 7, 9>>),
            Tx(LongText),
            El("a", {<<"href", r.href>>, <<"title", <<"T">>>>, <<"rel", <<"n","o","f","o","l","l","o","w">>>>,
                     <<"class", <<"e","x","t">>>>}, <<8>>),
            Tx(<<"m","o","r","e">>),
            El("img", {<<"src", r.src>>, <<"alt", <<"A">>>>, <<"width", <<"1","0">>>>,
                       <<"data-src", <<"z">>>>, <<"class", <<"c">>>>}, <<>>),
            El("div", {<<"class", <<"b","o","x">>>>, <<"id", <<"b">>>>}, <<11>>),
            El("div", {}, <<12>>),
            El("span", {<<"style", <<"c","o","l","o","r",":","r","e","d">>>>}, <<13>>),
            El(r.inner, {}, opt(r.blank # <<>>, <<18>>)),
            El("p", {}, <<15, 16>>),
            Tx(ShortText),
            El("a", {<<"href", r.href>>, <<"class", <<"m","o","r","e">>>>}, <<17>>),
            Tx(<<" ">>),
            Tx(r.blank) >>
        live == SeqToSet(Preorder([n \in 1..Len(used) |-> used[n]], Root))
    IN  [n \in Nodes |-> IF n \in live THEN used[n] ELSE EmptyNode]

SampleRichPages ==
    { [href |-> <<"/","/","c","d","n",".","h","/","x">>, src |-> <<"/","/","c","d","n",".","h","/","i",".","p","n","g">>, inner |-> "b", blank |-> <<>>],
      [href |-> <<"/","x">>, src |-> <<"i",".","p","n","g">>, inner |-> "b", blank |-> <<" ", "\n">>],
      [href |-> <<"h","t","t","p",":","/","/","a","/","b">>, src |-> <<"h","t","t","p","s",":","/","/","a","/","i",".","p","n","g">>, inner |-> "img", blank |-> <<>>],
      [href |-> <<"x",".","h","t","m","l">>, src |-> <<"/","/","c","d","n",".","h","/","i",".","p","n","g">>, inner |-> "", blank |-> <<>>] }

SampleDocuments ==
    {Page(p) : p \in SamplePages} \cup {ArticleBodyPage}
    \cup {MetaPage(m) : m \in SampleMetaPages}
    \cup {RichPage(r) : r \in SampleRichPages}

NoCall ==
    [op |-> "none", s1 |-> <<>>, s2 |-> <<>>, s3 |-> <<>>, n |-> 0, q |-> <<0, 1>>,
     p |-> <<>>, sm |-> <<>>, ds |-> <<>>, d |-> EmptyTree]
NoRet ==
    [done |-> FALSE, n |-> 0, q |-> <<0, 1>>, s |-> <<>>, panic |-> FALSE, t |-> NoTime,
     sm |-> <<>>, sm2 |-> <<>>]
NoResult == [kind |-> "none"]
NoMeta == [Title |-> <<>>, Author |-> <<>>, PublishedAt |-> NoTime, LeadImage |-> NoImage,
           assigned |-> FALSE]

Init ==
    /\ call = NoCall
    /\ ret = NoRet
    /\ pc = "start"
    /\ config \in Configs
    /\ baseURL \in BaseURLs
    /\ doc \in SampleDocuments
    /\ input = doc
    /\ meta = NoMeta
    /\ scoreMap = <<>>
    /\ topCandidate = 0
    /\ contentSel = 0
    /\ contentClone = EmptyTree
    /\ result = NoResult

\* title, author, publishedAt and leadImage are read off the parsed document
StepMetadata ==
    /\ pc = "start"
    /\ meta = NoMeta
    /\ meta' = ExtractMetadata(doc, baseURL)
    /\ UNCHANGED <<fnvars, pc, config, baseURL, input, doc, scoreMap, topCandidate,
                   contentSel, contentClone, result>>

\* cleaner.Preprocess(doc)
StepPreprocess ==
    /\ pc = "start"
    /\ meta # NoMeta
    /\ doc' = Preprocess(doc)
    /\ pc' = "preprocessed"
    /\ UNCHANGED <<fnvars, config, baseURL, input, meta, scoreMap, topCandidate, contentSel,
                   contentClone, result>>

\* topCandidate, scoreMap := s.Score(doc)
StepScore ==
    /\ pc = "preprocessed"
    /\ scoreMap' = RefineScores(ScoreAndPropagate(doc, config.MinParagraphLength))
    /\ \E order \in IterationOrders(scoreMap') :
           topCandidate' = GetTopCandidate(scoreMap', order)
    /\ pc' = "scored"
    /\ UNCHANGED <<fnvars, config, baseURL, input, meta, doc, contentSel, contentClone, result>>

\* if topCandidate == nil ... return nil, NewExtractionError("extract", baseURL, ErrNoContent)
ReturnNoContent ==
    /\ pc = "scored"
    /\ topCandidate = 0
    /\ result' = [kind |-> "error", Op |-> "extract", URL |-> baseURL,
                  Err |-> "ErrNoContent"]
    /\ pc' = "done"
    /\ UNCHANGED <<fnvars, config, baseURL, input, meta, doc, scoreMap, topCandidate, contentSel,
                   contentClone>>

\* contentSel = cleaner.MergeSiblings(contentSel, topCandidate.GetScore(), ...)
StepMergeSiblings ==
    /\ pc = "scored"
    /\ topCandidate # 0
    /\ contentSel' = MergeSiblings(doc, scoreMap[topCandidate].Selection,
                                   scoreMap[topCandidate].ContentScore,
                                   config.MinParagraphLength)
    /\ pc' = "merged"
    /\ UNCHANGED <<fnvars, config, baseURL, input, meta, doc, scoreMap, topCandidate, contentClone,
                   result>>

\* contentClone := contentSel.Clone(); Postprocess; ConvertRelativeURLs.
\* What the cleaning writes reaches the document through the nodes the
\* clone shares with it.
StepPostprocess ==
    /\ pc = "merged"
    /\ contentClone' =
           ConvertRelativeURLs(Postprocess(Clone(doc, contentSel), contentSel),
                               contentSel, baseURL)
    /\ doc' = [m \in Nodes |->
                  IF m \in CloneAliases(doc, contentSel) THEN contentClone'[m] ELSE doc[m]]
    /\ pc' = "cleaned"
    /\ UNCHANGED <<fnvars, config, baseURL, input, meta, scoreMap, topCandidate, contentSel,
                   result>>

\* the length check compared with the wrong configuration field
ContentTooShort_WrongField(textContent, cfg) ==
    ByteLen(textContent) < cfg.MinParagraphLength

\* len(textContent) < e.config.MinContentLength
ContentTooShort(textContent, cfg) == ByteLen(textContent) < cfg.MinContentLength

ReturnContentTooShort ==
    /\ pc = "cleaned"
    /\ ContentTooShort(GetCleanText(contentClone, contentSel), config)
    /\ result' = [kind |-> "error", Op |-> "validate", URL |-> baseURL,
                  Err |-> "ErrContentTooShort"]
    /\ pc' = "done"
    /\ UNCHANGED <<fnvars, config, baseURL, input, meta, doc, scoreMap, topCandidate, contentSel,
                   contentClone>>

\* return &Article{...}, nil
ReturnArticle ==
    /\ pc = "cleaned"
    /\ ~ContentTooShort(GetCleanText(contentClone, contentSel), config)
    /\ \E order \in IterationOrders(scoreMap) :
           LET textContent == GetCleanText(contentClone, contentSel)
               wordCount == CountWords(textContent)
           IN  result' =
                   [kind |-> "article",
                    Title |-> meta.Title,
                    Excerpt |-> GetExcerpt(textContent, 200).s,
                    Author |-> meta.Author,
                    PublishedAt |-> meta.PublishedAt,
                    LeadImage |-> meta.LeadImage,
                    Content |-> GetCleanHTML(contentClone, contentSel),
                    TextContent |-> textContent,
                    URL |-> baseURL,
                    WordCount |-> wordCount,
                    Score |-> scoreMap[topCandidate].ContentScore,
                    Confidence |->
                        calculateConfidence(scoreMap[topCandidate],
                            GetCandidatesByScore(scoreMap, order), wordCount)]
    /\ pc' = "done"
    /\ UNCHANGED <<fnvars, config, baseURL, input, meta, doc, scoreMap, topCandidate, contentSel,
                   contentClone>>

Next ==
    \/ StepMetadata
    \/ StepPreprocess
    \/ StepScore
    \/ ReturnNoContent
    \/ StepMergeSiblings
    \/ StepPostprocess
    \/ ReturnContentTooShort
    \/ ReturnArticle

Spec == Init /\ [][Next]_vars

-----------------------------------------------------------------------------
(* Calls of the pure functions, with inputs drawn from bounded sets.       *)

s_SIDEBAR == <<"S","I","D","E","B","A","R">>
s_CoNtEnT == <<"C","o","N","t","E","n","T">>
s_article_sidebar == <<"a","r","t","i","c","l","e","-","s","i","d","e","b","a","r">>

\* the classes and ids of TestGetWeight, TestIsBlacklisted, TestIsWhitelisted
ClassSamples ==
    { <<>>, kw_article, kw_content, kw_sidebar, kw_ad, s_article_sidebar,
      <<"r","a","n","d","o","m">>, <<"t","h","r","e","a","d">>, s_SIDEBAR, s_CoNtEnT, <<"h","e","a","d","e","r">>, <<"x">> }

MaxCommas == 2
MaxTopScore == 110
MinLengths == {0, 3, 25}
LetterCounts == {0, 2, 23, 24, 48, 149, 210}

\* a paragraph text built from its shape <<a, b, c, d, e>>: a letters,
\* b ASCII commas, c ideographic commas, d runs of blanks, e letters,
\* between a leading blank and a trailing line break
ShapeText(p) ==
    <<" ">> \o Rep(<<"x">>, p[1]) \o Rep(<<",">>, p[2]) \o Rep(<<"cjk">>, p[3])
        \o Rep(<<" ", "\t", " ">>, p[4]) \o Rep(<<"x">>, p[5]) \o <<"\n">>

Shapes ==
    {<<a, b, c, d, e>> : a \in LetterCounts, b \in 0..MaxCommas,
                         c \in 0..1, d \in 0..1, e \in 0..1}

\* score maps <<top>> and <<top, runner-up>> for calculateConfidence: every
\* score, word-count and link-density bucket, with and without dominance
ConfidenceMaps ==
    LET ns(s, w, l) == [NewNodeScore(1) EXCEPT !.ContentScore = s, !.Weight = w,
                                               !.LinkDensity = l]
        tops == {ns(s, w, l) :
                    s \in {<<-2, 1>>, <<1, 1>>, <<20, 1>>, <<41, 2>>, <<50, 1>>,
                           <<51, 1>>, <<100, 1>>, <<101, 1>>},
                    w \in {0, 25},
                    l \in {<<0, 1>>, <<1, 10>>, <<3, 20>>, <<1, 5>>, <<3, 4>>}}
        seconds == {[ns(s, w, <<0, 1>>) EXCEPT !.Selection = 2] :
                    s \in {<<-30, 1>>, <<0, 1>>, <<10, 1>>, <<26, 1>>, <<60, 1>>},
                    w \in {0, -25}}
    IN  {<<t>> : t \in {x \in tops : RGt(GetWeightedScore(x), <<-1, 1>>)}}
        \cup {<<t, r>> : t \in {x \in tops : RGt(GetWeightedScore(x), <<-1, 1>>)},
                         r \in {y \in seconds : TRUE}}

WordCounts == {0, 100, 101, 200, 201, 500, 501}

\* the texts of TestGetExcerpt and texts without a full stop or a blank
ExcerptTexts ==
    { <<"S","h","o","r","t"," ","t","e","x","t">>, <<"a","b","c">>, <<"a"," ","b","c">>, <<"a","b","c","d","e","f","g","h">>, <<" "," ","a","b"," "," "," ","c","d"," "," ">>,
      <<"S","e","n","t","e","n","c","e"," ","o","n","e","."," ","S","e","n","t","e","n","c","e"," ","t","w","o","."," ","S","e","n","t","e","n","c","e"," ","t","h","r","e","e",".">>,
      <<"x", "period", "y", "cjk", "z", "z">>,
      Rep(<<"x">>, 210), Rep(<<"w","o","r","d"," ">>, 50), Rep(<<"A"," ","s","e","n","t","e","n","c","e"," ","h","e","r","e","."," ">>, 14) }
MaxLengths == {1, 2, 3, 4, 6, 25, 200}

\* a tree of the nodes listed, the others free
TreeOf(used) == [n \in Nodes |-> IF n <= Len(used) THEN used[n] ELSE EmptyNode]

\* nodes to take the link density of: text only, one anchor holding all the
\* text, an anchor holding part of it, no text at all, and an anchor inside a
\* table cell inside an anchor (the parser nests anchors across td)
LinkTrees ==
    { TreeOf(<<El("p", {}, <<2>>), Tx(<<" ","p","l","a","i","n"," ","t","e","x","t"," ">>)>>),
      TreeOf(<<El("p", {}, <<2, 3, 5>>), Tx(<<" ">>), El("a", {<<"href", <<"/","x">>>>}, <<4>>),
               Tx(<<"a","l","l"," ","o","f"," ","i","t">>), Tx(<<"\n">>)>>),
      TreeOf(<<El("p", {}, <<2, 3, 5>>), Tx(<<"a","b"," ">>), El("a", {<<"href", <<"/","x">>>>}, <<4>>),
               Tx(<<"c","d">>), El("a", {}, <<6>>), Tx(<<" ","e"," ">>)>>),
      TreeOf(<<El("p", {}, <<2>>), El("a", {<<"href", <<"/","x">>>>}, <<>>)>>),
      TreeOf(<<El("div", {}, <<2>>), El("a", {<<"href", <<"/","x">>>>}, <<3>>),
               El("table", {}, <<4>>), El("tbody", {}, <<5>>), El("tr", {}, <<6>>),
               El("td", {}, <<7>>), El("a", {<<"href", <<"/","y">>>>}, <<8>>), Tx(<<"t","e","x","t">>)>>) }

\* the date a source of the chain holds when it holds one: 2024-01-1k
DateString(k) == <<"2","0","2","4","-","0","1","-","1">> \o <<<<"1", "2", "3", "4", "5">>[k]>>
DateValues(k) == {<<>>, <<"y","e","s","t","e","r","d","a","y">>, DateString(k)}

\* a page whose date sources are meta article:published_time, JSON-LD
\* datePublished, itemprop datePublished, time[datetime] and a date class
DatePage(ds) ==
    LET opt(v, ks) == IF v # <<>> THEN ks ELSE <<>>
        used == <<
            El("html", {}, <<2, 3>>),
            El("head", {}, opt(ds[1], <<4>>) \o opt(ds[2], <<5>>)),
            El("body", {}, opt(ds[3], <<7>>) \o opt(ds[4], <<8>>) \o opt(ds[5], <<9>>)),
            El("meta", {<<"property", <<"a","r","t","i","c","l","e",":","p","u","b","l","i","s","h","e","d","_","t","i","m","e">>>>, <<"content", ds[1]>>}, <<>>),
            El("script", {<<"type", <<"a","p","p","l","i","c","a","t","i","o","n","/","l","d","+","j","s","o","n">>>>}, <<6>>),
            Tx(<<"{">> \o Quote \o <<"d","a","t","e","P","u","b","l","i","s","h","e","d">> \o Quote \o <<":"," ">> \o Quote \o ds[2]
               \o Quote \o <<"}">>),
            El("span", {<<"itemprop", <<"d","a","t","e","P","u","b","l","i","s","h","e","d">>>>, <<"content", ds[3]>>}, <<>>),
            El("time", {<<"datetime", ds[4]>>}, <<>>),
            El("span", {<<"class", <<"p","o","s","t","-","d","a","t","e">>>>}, <<10>>),
            Tx(ds[5]) >>
        live == SeqToSet(Preorder([n \in 1..Len(used) |-> used[n]], Root))
    IN  [n \in Nodes |-> IF n \in live THEN used[n] ELSE EmptyNode]

\* the two sides of a title: the example of TestExtractTitle, short names,
\* and names with letters that take more than one byte
TitleSides ==
    { <<"A"," ","V","e","r","y"," ","L","o","n","g"," ","A","r","t","i","c","l","e"," ","T","i","t","l","e"," ","A","b","o","u","t"," ","S","o","m","e","t","h","i","n","g"," ","I","n","t","e","r","e","s","t","i","n","g">>, <<"S","i","t","e">>, <<"a","b">>, <<"a","b","c","d">>,
      <<"a","b","c","d","e">>, <<"C", "a", "f", "eacute">>, <<"cjk", "cjk", "cjk">>, <<"M","y"," "," ","B","l","o","g">> }

\* paragraph texts of 26 code points that score 3, 4 and 6
Score3Text == <<"w","o","r","d",","," ","w","o","r","d",","," ","w","o","r","d"," ","w","o","r","d"," ","w","o","r","d">>
Score4Text == <<"w","o","r","d",","," ","w","o","r","d",","," ","w","o","r","d",","," ","w","o","r","d"," ","w","o","r">>
Score6Text == <<"a",","," ","b",","," ","c",","," ","d",","," ","e",","," ","f","g","h","i","j","k","l","m","n","o","p">>

\* <body><outer><inner><p>t1</p><p>t2<a>link</a></p></inner><p>t3</p></outer></body>:
\* inner is the parent of two paragraphs, outer their grandparent and the
\* parent of a third
ScoreDoc(r) ==
    LET opt(present, ks) == IF present THEN ks ELSE <<>>
        used == <<
            El("html", {}, <<2, 3>>),
            El("head", {}, <<>>),
            El("body", {}, <<4>>),
            El(r.outer, {}, <<5>> \o opt(r.t3 # <<>>, <<12>>)),
            El(r.inner, r.innerA, <<6>> \o opt(r.t2 # <<>>, <<8>>)),
            El("p", {}, <<7>>),
            Tx(r.t1),
            El("p", {}, <<9>> \o opt(r.link > 0, <<10>>)),
            Tx(r.t2),
            El("a", {<<"href", <<"/","x">>>>}, <<11>>),
            Tx(Rep(<<"l">>, r.link)),
            El("p", {}, <<13>>),
            Tx(r.t3) >>
        live == SeqToSet(Preorder([n \in 1..Len(used) |-> used[n]], Root))
    IN  [n \in Nodes |-> IF n \in live THEN used[n] ELSE EmptyNode]

\* link lengths that put the link density of inner at 0, 0.2, 1/3, 0.5 and above
LinkLengths == {0, 13, 26, 52, 60}

ScoreDocs ==
    { ScoreDoc([outer |-> o, inner |-> i, innerA |-> a, t1 |-> t1, t2 |-> t2, t3 |-> t3,
                link |-> k]) :
        o \in {"div", "form"}, i \in {"div", "form", "address", "section"},
        a \in {{}, {<<"class", kw_sidebar>>}, {<<"class", <<"h","e","n","t","r","y">>>>}},
        t1 \in {Score3Text, Score4Text, ShortText}, t2 \in {<<>>, Score3Text},
        t3 \in {<<>>, Score6Text}, k \in LinkLengths }

FnCalls ==
    {[NoCall EXCEPT !.op = "GetWeight", !.s1 = c, !.s2 = i] :
        c \in ClassSamples, i \in ClassSamples}
    \cup {[NoCall EXCEPT !.op = "ScoreParagraph", !.p = p, !.s1 = ShapeText(p), !.n = m] :
        p \in Shapes, m \in MinLengths}
    \cup {[NoCall EXCEPT !.op = "GetSiblingThreshold", !.q = Rat(n, d)] :
        n \in (-20)..(2 * MaxTopScore), d \in {1, 2, 3}}
    \cup {[NoCall EXCEPT !.op = "calculateConfidence", !.sm = sm, !.n = w] :
        sm \in {m \in ConfidenceMaps :
                   \A i \in 1..Len(m) :
                       ~RGt(GetWeightedScore(m[i]), GetWeightedScore(m[1]))},
        w \in WordCounts}
    \cup {[NoCall EXCEPT !.op = "Score", !.d = t, !.n = 25] : t \in ScoreDocs}
    \cup {[NoCall EXCEPT !.op = "GetExcerpt", !.s1 = t, !.n = m] :
        t \in ExcerptTexts, m \in MaxLengths}
    \cup {[NoCall EXCEPT !.op = "CalculateLinkDensity", !.d = t, !.n = Root] :
        t \in LinkTrees}
    \cup {[NoCall EXCEPT !.op = "ExtractDate", !.ds = <<a, b, c, e, f>>,
                         !.d = DatePage(<<a, b, c, e, f>>)] :
        a \in DateValues(1), b \in DateValues(2), c \in DateValues(3),
        e \in DateValues(4), f \in DateValues(5)}
    \cup {[NoCall EXCEPT !.op = "cleanTitle", !.s1 = b, !.s3 = titleSeparators[k], !.s2 = a] :
        b \in TitleSides, a \in TitleSides, k \in 1..Len(titleSeparators)}

CallGetWeight ==
    /\ call.op = "GetWeight" /\ ~ret.done
    /\ ret' = [NoRet EXCEPT !.done = TRUE, !.n = GetWeight(call.s1, call.s2)]
    /\ UNCHANGED <<call, exvars>>

CallScoreParagraph ==
    /\ call.op = "ScoreParagraph" /\ ~ret.done
    /\ ret' = [NoRet EXCEPT !.done = TRUE, !.n = ScoreParagraph(call.s1, call.n)]
    /\ UNCHANGED <<call, exvars>>

CallGetSiblingThreshold ==
    /\ call.op = "GetSiblingThreshold" /\ ~ret.done
    /\ ret' = [NoRet EXCEPT !.done = TRUE, !.q = GetSiblingThreshold(call.q)]
    /\ UNCHANGED <<call, exvars>>

\* calculateConfidence(topCandidate, scoreMap, wordCount), topCandidate being
\* the first entry of the map
CallCalculateConfidence ==
    /\ call.op = "calculateConfidence" /\ ~ret.done
    /\ \E order \in IterationOrders(call.sm) :
           ret' = [NoRet EXCEPT !.done = TRUE,
                      !.q = calculateConfidence(call.sm[1],
                               GetCandidatesByScore(call.sm, order), call.n)]
    /\ UNCHANGED <<call, exvars>>

CallGetExcerpt ==
    /\ call.op = "GetExcerpt" /\ ~ret.done
    /\ LET r == GetExcerpt(call.s1, call.n)
       IN  ret' = [NoRet EXCEPT !.done = TRUE, !.s = r.s, !.panic = r.panic]
    /\ UNCHANGED <<call, exvars>>

CallCalculateLinkDensity ==
    /\ call.op = "CalculateLinkDensity" /\ ~ret.done
    /\ ret' = [NoRet EXCEPT !.done = TRUE, !.q = CalculateLinkDensity(call.d, call.n)]
    /\ UNCHANGED <<call, exvars>>

CallExtractDate ==
    /\ call.op = "ExtractDate" /\ ~ret.done
    /\ ret' = [NoRet EXCEPT !.done = TRUE, !.t = ExtractDate(call.d)]
    /\ UNCHANGED <<call, exvars>>

\* cleanTitle of the title made of the two sides and the separator
CallCleanTitle ==
    /\ call.op = "cleanTitle" /\ ~ret.done
    /\ ret' = [NoRet EXCEPT !.done = TRUE, !.s = cleanTitle(call.s1 \o call.s3 \o call.s2)]
    /\ UNCHANGED <<call, exvars>>

\* Scorer.Score: ScoreAndPropagate, RefineScores, GetTopCandidate
CallScore ==
    /\ call.op = "Score" /\ ~ret.done
    /\ LET propagated == ScoreAndPropagate(call.d, call.n)
           refined == RefineScores(propagated)
       IN  \E order \in IterationOrders(refined) :
               ret' = [NoRet EXCEPT !.done = TRUE, !.sm = propagated, !.sm2 = refined,
                                    !.n = GetTopCandidate(refined, order)]
    /\ UNCHANGED <<call, exvars>>

InitFn ==
    /\ call \in FnCalls
    /\ ret = NoRet
    /\ pc = "idle"
    /\ config = DefaultConfig
    /\ baseURL = <<>>
    /\ input = EmptyTree
    /\ meta = NoMeta
    /\ doc = EmptyTree
    /\ scoreMap = <<>>
    /\ topCandidate = 0
    /\ contentSel = 0
    /\ contentClone = EmptyTree
    /\ result = NoResult

NextFn ==
    \/ CallGetWeight
    \/ CallScoreParagraph
    \/ CallGetSiblingThreshold
    \/ CallCalculateConfidence
    \/ CallGetExcerpt
    \/ CallCalculateLinkDensity
    \/ CallExtractDate
    \/ CallCleanTitle
    \/ CallScore

SpecFn == InitFn /\ [][NextFn]_vars

-----------------------------------------------------------------------------
(* Extractor.ExtractFromURL: validate, fetch, extract.                     *)

\* fetcher.IsValidURL
IsValidURL(url) ==
    \/ MatchesAt(TrimSpace(url), <<"h","t","t","p",":","/","/">>, 1)
    \/ MatchesAt(TrimSpace(url), <<"h","t","t","p","s",":","/","/">>, 1)

\* fetcher.NormalizeURL
NormalizeURL(url) ==
    IF ~MatchesAt(TrimSpace(url), <<"h","t","t","p",":","/","/">>, 1) /\ ~MatchesAt(TrimSpace(url), <<"h","t","t","p","s",":","/","/">>, 1)
    THEN <<"h","t","t","p","s",":","/","/">> \o TrimSpace(url)
    ELSE TrimSpace(url)

\* io.LimitReader(reader, maxSize) read to the end: the first maxSize bytes
\* of the body (bodies here hold one-byte characters only)
LimitRead(body, maxSize) ==
    SubSeq(body, 1, IF Len(body) < maxSize THEN Len(body) ELSE maxSize)

\* goquery.NewDocumentFromReader for the markup used here: nothing, or <p>
\* followed by text without markup; the parser supplies html, head and body
\* and closes the paragraph at the end of the input
ParseHTML(s) ==
    IF MatchesAt(s, <<"<","p",">">>, 1)
    THEN TreeOf(<<El("html", {}, <<2, 3>>), El("head", {}, <<>>), El("body", {}, <<4>>),
                  El("p", {}, IF Len(s) > 3 THEN <<5>> ELSE <<>>)>>
                \o (IF Len(s) > 3 THEN <<Tx(SubSeq(s, 4, Len(s)))>> ELSE <<>>))
    ELSE TreeOf(<<El("html", {}, <<2, 3>>), El("head", {}, <<>>), El("body", {}, <<>>)>>)

\* the strings handed to ExtractFromURL
SampleURLs ==
    { <<>>, <<"f","t","p",":","/","/","h","/","f","i","l","e">>, <<"h","/","a">>, <<"h","t","t","p",":","/","/","h","/","a","/","b">>, <<"h","t","t","p","s",":","/","/","s",".","h","/","a">>, <<" ","h","t","t","p","s",":","/","/","s",".","h","/","a"," ">>,
      <<"m","a","i","l","t","o",":","x">>, <<"/","/","h","/","a">> }

\* the bodies the server answers with
SampleBodies ==
    { <<>>, <<"<","p",">">> \o TinyText, <<"<","p",">">> \o LongText, <<"<","p",">">> \o Rep(<<"w","o","r","d"," ">>, 60) }

\* WithMaxContentLength of the configuration, in bytes
MaxSizes == {64, 160, 1024}

InitURL ==
    /\ \E u \in SampleURLs, b \in SampleBodies, m \in MaxSizes :
           call = [NoCall EXCEPT !.op = "ExtractFromURL", !.s1 = u, !.s2 = b, !.n = m]
    /\ ret = NoRet
    /\ pc = "validate"
    /\ config \in {DefaultConfig, [MinParagraphLength |-> 5, MinContentLength |-> 20]}
    /\ baseURL = <<>>
    /\ doc = EmptyTree
    /\ input = EmptyTree
    /\ meta = NoMeta
    /\ scoreMap = <<>>
    /\ topCandidate = 0
    /\ contentSel = 0
    /\ contentClone = EmptyTree
    /\ result = NoResult

\* if !IsValidURL(url) { url = NormalizeURL(url); if !IsValidURL(url) { return invalid-url } }
StepValidate ==
    /\ pc = "validate"
    /\ LET url == IF IsValidURL(call.s1) THEN call.s1 ELSE NormalizeURL(call.s1)
       IN  IF IsValidURL(url)
           THEN /\ baseURL' = url
                /\ pc' = "fetch"
                /\ UNCHANGED result
           ELSE /\ result' = [kind |-> "error", Op |-> "validate", URL |-> url,
                              Err |-> "ErrInvalidURL"]
                /\ pc' = "done"
                /\ UNCHANGED baseURL
    /\ UNCHANGED <<fnvars, config, input, meta, doc, scoreMap, topCandidate, contentSel,
                   contentClone>>

\* html, err := e.client.Fetch(ctx, url), then the parse of ExtractWithURL:
\* the request fails, or the body is read through the limit reader
StepFetch ==
    /\ pc = "fetch"
    /\ \E ok \in BOOLEAN :
           IF ok
           THEN /\ doc' = ParseHTML(LimitRead(call.s2, call.n))
                /\ input' = doc'
                /\ pc' = "start"
                /\ UNCHANGED result
           ELSE /\ result' = [kind |-> "error", Op |-> "fetch", URL |-> baseURL,
                              Err |-> "fetching URL"]
                /\ pc' = "done"
                /\ UNCHANGED <<doc, input>>
    /\ UNCHANGED <<fnvars, config, baseURL, meta, scoreMap, topCandidate, contentSel,
                   contentClone>>

\* article.URL = url; return article, nil (or return nil, err)
ReturnFromURL ==
    /\ pc = "done"
    /\ call.op = "ExtractFromURL"
    /\ result' = IF result.kind = "article" THEN [result EXCEPT !.URL = baseURL] ELSE result
    /\ pc' = "returned"
    /\ UNCHANGED <<fnvars, config, baseURL, input, meta, doc, scoreMap, topCandidate,
                   contentSel, contentClone>>

NextURL ==
    \/ StepValidate
    \/ StepFetch
    \/ StepMetadata
    \/ StepPreprocess
    \/ StepScore
    \/ ReturnNoContent
    \/ StepMergeSiblings
    \/ StepPostprocess
    \/ ReturnContentTooShort
    \/ ReturnArticle
    \/ ReturnFromURL

SpecURL == InitURL /\ [][NextURL]_vars

-----------------------------------------------------------------------------
(* Two concurrent Extract calls on one Extractor.  In this specification   *)
(* the per-call variables hold one value per call; config is the state of  *)
(* the Extractor both calls read.                                          *)

Calls == {1, 2}

\* one scorer, and with it one ScoreMap, kept on the Extractor for all calls
ScoreMapOf_Shared(i) == 1

\* the ScoreMap call i works on: s := scorer.NewScorer(...) and NewScoreMap()
\* are local to the call
ScoreMapOf(i) == i

\* the state of call i as one record
CallState(i) ==
    [pc |-> pc[i], baseURL |-> baseURL[i], meta |-> meta[i], doc |-> doc[i],
     scoreMap |-> scoreMap[ScoreMapOf(i)], topCandidate |-> topCandidate[i],
     contentSel |-> contentSel[i], contentClone |-> contentClone[i], result |-> result[i]]

\* extractFromDocument as a function of the state of one call: the states
\* its next stage can leave the call in
StageResults(s, cfg) ==
    LET text == GetCleanText(s.contentClone, s.contentSel)
        failed(op, err) ==
            {[s EXCEPT !.pc = "done",
                       !.result = [kind |-> "error", Op |-> op, URL |-> s.baseURL, Err |-> err]]}
    IN  CASE s.pc = "start" /\ s.meta = NoMeta ->
                {[s EXCEPT !.meta = ExtractMetadata(s.doc, s.baseURL)]}
          [] s.pc = "start" /\ s.meta # NoMeta ->
                {[s EXCEPT !.doc = Preprocess(s.doc), !.pc = "preprocessed"]}
          [] s.pc = "preprocessed" ->
                LET sm == RefineScores(ScoreAndPropagate(s.doc, cfg.MinParagraphLength))
                IN  {[s EXCEPT !.scoreMap = sm, !.topCandidate = GetTopCandidate(sm, order),
                               !.pc = "scored"] : order \in IterationOrders(sm)}
          [] s.pc = "scored" /\ s.topCandidate = 0 -> failed("extract", "ErrNoContent")
          [] s.pc = "scored" /\ s.topCandidate # 0 ->
                {[s EXCEPT !.contentSel =
                               MergeSiblings(s.doc, s.scoreMap[s.topCandidate].Selection,
                                             s.scoreMap[s.topCandidate].ContentScore,
                                             cfg.MinParagraphLength),
                           !.pc = "merged"]}
          [] s.pc = "merged" ->
                {[s EXCEPT !.contentClone =
                               ConvertRelativeURLs(
                                   Postprocess(Clone(s.doc, s.contentSel), s.contentSel),
                                   s.contentSel, s.baseURL),
                           !.pc = "cleaned"]}
          [] s.pc = "cleaned" /\ ContentTooShort(text, cfg) ->
                failed("validate", "ErrContentTooShort")
          [] s.pc = "cleaned" /\ ~ContentTooShort(text, cfg) ->
                {[s EXCEPT !.pc = "done",
                           !.result =
                               [kind |-> "article",
                                Title |-> s.meta.Title,
                                Excerpt |-> GetExcerpt(text, 200).s,
                                Author |-> s.meta.Author,
                                PublishedAt |-> s.meta.PublishedAt,
                                LeadImage |-> s.meta.LeadImage,
                                Content |-> GetCleanHTML(s.contentClone, s.contentSel),
                                TextContent |-> text,
                                URL |-> s.baseURL,
                                WordCount |-> CountWords(text),
                                Score |-> s.scoreMap[s.topCandidate].ContentScore,
                                Confidence |->
                                    calculateConfidence(s.scoreMap[s.topCandidate],
                                        GetCandidatesByScore(s.scoreMap, order),
                                        CountWords(text))]] :
                        order \in IterationOrders(s.scoreMap)}
          [] OTHER -> {}

\* the documents of the two calls
ConcDocuments ==
    { Page(Simple), Page([Simple EXCEPT !.t1 = WideText]),
      Page([Simple EXCEPT !.t1 = TinyText]),
      RichPage([href |-> <<"/","x">>, src |-> <<"i",".","p","n","g">>, inner |-> "b", blank |-> <<" ", "\n">>]) }

InitConc ==
    /\ call = [NoCall EXCEPT !.op = "Extract"]
    /\ ret = NoRet
    /\ pc = [i \in Calls |-> "start"]
    /\ config \in {DefaultConfig, [MinParagraphLength |-> 5, MinContentLength |-> 20]}
    /\ baseURL \in [Calls -> {<<>>, <<"h","t","t","p",":","/","/","h","/","a","/","b">>}]
    /\ doc \in [Calls -> ConcDocuments]
    /\ input = doc
    /\ meta = [i \in Calls |-> NoMeta]
    /\ scoreMap = [i \in Calls |-> <<>>]
    /\ topCandidate = [i \in Calls |-> 0]
    /\ contentSel = [i \in Calls |-> 0]
    /\ contentClone = [i \in Calls |-> EmptyTree]
    /\ result = [i \in Calls |-> NoResult]

\* call i runs its next stage
ConcStep(i) ==
    \E t \in StageResults(CallState(i), config) :
        /\ pc' = [pc EXCEPT ![i] = t.pc]
        /\ meta' = [meta EXCEPT ![i] = t.meta]
        /\ doc' = [doc EXCEPT ![i] = t.doc]
        /\ scoreMap' = [scoreMap EXCEPT ![ScoreMapOf(i)] = t.scoreMap]
        /\ topCandidate' = [topCandidate EXCEPT ![i] = t.topCandidate]
        /\ contentSel' = [contentSel EXCEPT ![i] = t.contentSel]
        /\ contentClone' = [contentClone EXCEPT ![i] = t.contentClone]
        /\ result' = [result EXCEPT ![i] = t.result]
        /\ UNCHANGED <<fnvars, config, baseURL, input>>

NextConc == \E i \in Calls : ConcStep(i)

SpecConc == InitConc /\ [][NextConc]_vars

-----------------------------------------------------------------------------
\* cleaner.Preprocess, one action per statement of its body; pc names the
\* statement to run next.

Text199 == Rep(<<"w","o","r","d"," ">>, 40)
Text200 == Rep(<<"w","o","r","d"," ">>, 39) \o <<"w","o","r","d","s">>

\* <body><A><p>text</p><a>link</a></A><B><article><p>...</p></article></B>
\* <div data-articlebody>...</div></body>
BlockPage(r) ==
    LET opt(present, ks) == IF present THEN ks ELSE <<>>
        used == <<
            El("html", {}, <<2, 3>>),
            El("head", {}, <<>>),
            El("body", {}, <<4>> \o opt(r.nested, <<9>>)),
            El(r.tag, r.attrs, <<5>> \o opt(r.link > 0, <<7>>)),
            El("p", {}, <<6>>),
            Tx(r.text),
            El("a", {<<"href", <<"/","x">>>>}, <<8>>),
            Tx(Rep(<<"l">>, r.link)),
            El("div", {<<"class", kw_sidebar>>}, <<10>>),
            El("article", {<<"id", <<"c","o","m","m","e","n","t">>>>}, <<11>>),
            El("p", {}, <<12>>),
            Tx(ShortText) >>
        live == SeqToSet(Preorder([n \in 1..Len(used) |-> used[n]], Root))
    IN  [n \in Nodes |-> IF n \in live THEN used[n] ELSE EmptyNode]

\* link text of 0, 200 and 201 runes: next to Text200 the link density is
\* 0, 0.5 and just above 0.5
BlockPages ==
    { BlockPage([tag |-> t, attrs |-> a, text |-> x, link |-> k, nested |-> n]) :
        t \in {"div", "section", "article", "main"},
        a \in {{}, {<<"class", kw_sidebar>>}, {<<"id", <<"c","o","m","m","e","n","t">>>>},
               {<<"class", <<"s","o","c","i","a","l">>>>, <<"id", <<"p","o","s","t">>>>},
               {<<"class", <<"S","i","d","e","b","a","r">>>>, <<"id", <<"x">>>>}},
        x \in {ShortText, Text199, Text200},
        k \in {0, 200, 201}, n \in BOOLEAN }

PreDocuments == BlockPages \cup {ArticleBodyPage}

InitPre ==
    /\ call = [NoCall EXCEPT !.op = "Preprocess"]
    /\ ret = NoRet
    /\ pc = "RemoveUnwantedTags"
    /\ config = DefaultConfig
    /\ baseURL = <<>>
    /\ doc \in PreDocuments
    /\ input = doc
    /\ meta = NoMeta
    /\ scoreMap = <<>>
    /\ topCandidate = 0
    /\ contentSel = 0
    /\ contentClone = EmptyTree
    /\ result = NoResult

PreFrame ==
    UNCHANGED <<fnvars, config, baseURL, input, meta, scoreMap, topCandidate, contentSel,
                contentClone, result>>

PreRemoveUnwantedTags ==
    /\ call.op = "Preprocess" /\ pc = "RemoveUnwantedTags"
    /\ doc' = RemoveUnwantedTags(doc)
    /\ pc' = "RemoveHiddenElements"
    /\ PreFrame

PreRemoveHiddenElements ==
    /\ call.op = "Preprocess" /\ pc = "RemoveHiddenElements"
    /\ doc' = RemoveHiddenElements(doc)
    /\ pc' = "RemoveKnownWidgets"
    /\ PreFrame

PreRemoveKnownWidgets ==
    /\ call.op = "Preprocess" /\ pc = "RemoveKnownWidgets"
    /\ doc' = RemoveKnownWidgets(doc)
    /\ pc' = "StripUnlikelyTags"
    /\ PreFrame

\* StripUnlikelyCandidates, first loop
PreStripUnlikelyTags ==
    /\ call.op = "Preprocess" /\ pc = "StripUnlikelyTags"
    /\ doc' = StripUnlikelyTags(doc)
    /\ pc' = "StripBlacklisted"
    /\ PreFrame

\* StripUnlikelyCandidates, second loop
PreStripBlacklisted ==
    /\ call.op = "Preprocess" /\ pc = "StripBlacklisted"
    /\ doc' = StripBlacklisted(doc)
    /\ pc' = "ConvertDataArticleBodyToParagraphs"
    /\ PreFrame

PreConvertDataArticleBody ==
    /\ call.op = "Preprocess" /\ pc = "ConvertDataArticleBodyToParagraphs"
    /\ doc' = ConvertDataArticleBodyToParagraphs(doc)
    /\ pc' = "ConvertToParagraphs"
    /\ PreFrame

PreConvertToParagraphs ==
    /\ call.op = "Preprocess" /\ pc = "ConvertToParagraphs"
    /\ doc' = ConvertToParagraphs(doc)
    /\ pc' = "preprocessed"
    /\ PreFrame

NextPre ==
    \/ PreRemoveUnwantedTags
    \/ PreRemoveHiddenElements
    \/ PreRemoveKnownWidgets
    \/ PreStripUnlikelyTags
    \/ PreStripBlacklisted
    \/ PreConvertDataArticleBody
    \/ PreConvertToParagraphs

SpecPre == InitPre /\ [][NextPre]_vars

-----------------------------------------------------------------------------
\* scorer.ScoreMap under calls of Get, GetOrNil and Set made with selection
\* handles (*goquery.Selection). Here scoreMap is the Go map itself: a set of
\* entries [key |-> handle, score |-> NodeScore pointer].

\* the selection handles of the calls: 0 is an empty selection, 1 and 2 are
\* two selections of the same element, 3 and 4 of two other elements
Handles == 0..4
\* the *NodeScore values
ScorePointers == 1..3

\* sel.Get(0) of a non-empty handle
FirstNode(h) == IF h \in {1, 2} THEN 5 ELSE h + 3

\* for key, score := range sm.scores { if key.Get(0) == node { return score } }
\* in every order the runtime can iterate the map in: the score of a matching
\* key, a panic at the key of an empty selection, or no match
Scan(sm, node) ==
    {[kind |-> "found", score |-> e.score] : e \in {x \in sm : x.key # 0 /\ FirstNode(x.key) = node}}
    \cup (IF \E e \in sm : e.key = 0 THEN {[kind |-> "panic", score |-> 0]} ELSE {})
    \cup (IF \A e \in sm : e.key # 0 /\ FirstNode(e.key) # node
          THEN {[kind |-> "none", score |-> 0]} ELSE {})

\* sm.Size()
Size(sm) == Cardinality(sm)

InitMap ==
    /\ call = [NoCall EXCEPT !.op = "NewScoreMap"]
    /\ ret = NoRet
    /\ pc = "start"
    /\ config = DefaultConfig
    /\ baseURL = <<>>
    /\ doc = EmptyTree
    /\ input = EmptyTree
    /\ meta = NoMeta
    /\ scoreMap = {}
    /\ topCandidate = 0
    /\ contentSel = 0
    /\ contentClone = EmptyTree
    /\ result = NoResult

MapFrame ==
    UNCHANGED <<pc, config, baseURL, input, meta, doc, topCandidate, contentSel,
                contentClone, result>>

\* sm.Get(sel): the result is ret.n, 0 for nil
CallScoreMapGet ==
    /\ call.op \in {"NewScoreMap", "Get", "GetOrNil", "Set"} /\ ~ret.panic
    /\ \E h \in Handles :
        /\ call' = [NoCall EXCEPT !.op = "Get", !.n = h]
        /\ IF h = 0
           THEN ret' = [NoRet EXCEPT !.done = TRUE] /\ UNCHANGED scoreMap
           ELSE \E o \in Scan(scoreMap, FirstNode(h)) :
                    CASE o.kind = "found" ->
                            /\ ret' = [NoRet EXCEPT !.done = TRUE, !.n = o.score]
                            /\ UNCHANGED scoreMap
                      [] o.kind = "panic" ->
                            /\ ret' = [NoRet EXCEPT !.done = TRUE, !.panic = TRUE]
                            /\ UNCHANGED scoreMap
                      [] o.kind = "none" ->
                            \E ns \in ScorePointers :
                                /\ \A e \in scoreMap : e.score # ns
                                /\ \A m \in ScorePointers :
                                       (\A e \in scoreMap : e.score # m) => ns <= m
                                /\ scoreMap' = scoreMap \cup {[key |-> h, score |-> ns]}
                                /\ ret' = [NoRet EXCEPT !.done = TRUE, !.n = ns]
    /\ MapFrame

\* sm.GetOrNil(sel)
CallScoreMapGetOrNil ==
    /\ call.op \in {"NewScoreMap", "Get", "GetOrNil", "Set"} /\ ~ret.panic
    /\ \E h \in Handles :
        /\ call' = [NoCall EXCEPT !.op = "GetOrNil", !.n = h]
        /\ IF h = 0
           THEN ret' = [NoRet EXCEPT !.done = TRUE]
           ELSE \E o \in Scan(scoreMap, FirstNode(h)) :
                    ret' = [NoRet EXCEPT !.done = TRUE, !.n = o.score,
                                         !.panic = (o.kind = "panic")]
    /\ UNCHANGED scoreMap
    /\ MapFrame

\* sm.Set(sel, score): sm.scores[sel] = score
CallScoreMapSet ==
    /\ call.op \in {"NewScoreMap", "Get", "GetOrNil", "Set"} /\ ~ret.panic
    /\ \E h \in Handles, ns \in ScorePointers :
        /\ call' = [NoCall EXCEPT !.op = "Set", !.n = h, !.q = <<ns, 1>>]
        /\ scoreMap' = {e \in scoreMap : e.key # h} \cup {[key |-> h, score |-> ns]}
        /\ ret' = [NoRet EXCEPT !.done = TRUE]
    /\ MapFrame

NextMap ==
    \/ CallScoreMapGet
    \/ CallScoreMapGetOrNil
    \/ CallScoreMapSet

SpecMap == InitMap /\ [][NextMap]_vars

-----------------------------------------------------------------------------
(* Properties of the pure functions, checked under SpecFn.                 *)

\* C7: for every successful extraction the confidence lies in [0, 1] and is
\* greater than 0, for every combination of top-candidate score, word count,
\* top-candidate link density and runner-up score.
C7_ConfidenceRange ==
    (call.op = "calculateConfidence" /\ ret.done) =>
        /\ ret.q[2] > 0
        /\ ret.q[1] > 0
        /\ ret.q[1] <= ret.q[2]

C7_Witness ==
    /\ call.op = "calculateConfidence" /\ ret.done
    /\ ~RGt(call.sm[1].ContentScore, <<20, 1>>)
    /\ call.n <= 100
    /\ ~RLt(call.sm[1].LinkDensity, <<1, 5>>)
    /\ Len(call.sm) = 2
    /\ ret.q = <<1, 10>>

\* s = pre \o kw \o post for some keyword of the list, letter case ignored
HasKeyword(keywords, s) ==
    \E k \in 1..Len(keywords) : \E a \in 0..Len(s) :
        /\ a + Len(keywords[k]) <= Len(s)
        /\ [j \in 1..Len(keywords[k]) |-> FoldCase(s[a + j])] = keywords[k]

\* C8: classify(class, id) = 25*[class in whitelist] - 25*[class in blacklist]
\* + 25*[id in whitelist] - 25*[id in blacklist], by case-insensitive substring
\* match, the empty string matching nothing; the weight is one of -50, -25, 0,
\* 25, 50; ("article","content") gives 50, ("sidebar","ad") gives -50,
\* ("article","sidebar") gives 0 and ("article-sidebar","") gives 0.
C8_GetWeightFormula ==
    (call.op = "GetWeight" /\ ret.done) =>
        LET b2n(b) == IF b THEN 1 ELSE 0
        IN  /\ ret.n = 25 * b2n(HasKeyword(whitelistKeywords, call.s1))
                      - 25 * b2n(HasKeyword(blacklistKeywords, call.s1))
                      + 25 * b2n(HasKeyword(whitelistKeywords, call.s2))
                      - 25 * b2n(HasKeyword(blacklistKeywords, call.s2))
            /\ ret.n \in {-50, -25, 0, 25, 50}
            /\ (call.s1 = kw_article /\ call.s2 = kw_content) => ret.n = 50
            /\ (call.s1 = kw_sidebar /\ call.s2 = kw_ad) => ret.n = -50
            /\ (call.s1 = kw_article /\ call.s2 = kw_sidebar) => ret.n = 0
            /\ (call.s1 = s_article_sidebar /\ call.s2 = <<>>) => ret.n = 0
            /\ (call.s1 = s_SIDEBAR /\ call.s2 = s_CoNtEnT) => ret.n = 0
            /\ (call.s1 = <<>> /\ call.s2 = <<>>) => ret.n = 0

C8_Witness ==
    /\ call.op = "GetWeight" /\ ret.done
    /\ call.s1 = s_article_sidebar /\ call.s2 = <<>> /\ ret.n = 0

\* the normalized length and the comma count of ShapeText(p), from the shape
ShapeLen(p) ==
    p[1] + p[2] + p[3] + p[5]
        + (IF p[4] > 0 /\ p[5] > 0 /\ p[1] + p[2] + p[3] > 0 THEN 1 ELSE 0)
ShapeCommas(p) == p[2] + p[3]

\* C9: the paragraph score is 0 when the normalized text has fewer than
\* minLength code points, and otherwise 1 + (ASCII and CJK commas)
\* + min(floor(length/50), 3); a non-zero score is at least 1 and grows
\* with the number of commas without a cap.
C9_ScoreParagraphFormula ==
    (call.op = "ScoreParagraph" /\ ret.done) =>
        LET n == ShapeLen(call.p)
            capped == IF n \div 50 < 3 THEN n \div 50 ELSE 3
        IN  /\ ret.n = IF n < call.n THEN 0 ELSE 1 + ShapeCommas(call.p) + capped
            /\ ret.n # 0 => ret.n >= 1

C9_Witness ==
    /\ call.op = "ScoreParagraph" /\ ret.done
    /\ call.p = <<210, MaxCommas, 1, 1, 1>> /\ call.n = 25
    /\ ret.n = 1 + MaxCommas + 1 + 3

\* C10: the sibling-merge threshold is max(topScore * 0.25, 10):
\* threshold(100) = 25, threshold(40) = 10, threshold(20) = 10, never below 10.
C10_SiblingThreshold ==
    (call.op = "GetSiblingThreshold" /\ ret.done) =>
        /\ 4 * ret.q[1] * call.q[2] =
                (IF call.q[1] >= 40 * call.q[2] THEN call.q[1] * ret.q[2]
                                                ELSE 40 * call.q[2] * ret.q[2])
        /\ ret.q[2] > 0
        /\ ret.q[1] >= 10 * ret.q[2]
        /\ call.q = <<100, 1>> => ret.q = <<25, 1>>
        /\ call.q = <<40, 1>> => ret.q = <<10, 1>>
        /\ call.q = <<20, 1>> => ret.q = <<10, 1>>

C10_Witness ==
    /\ call.op = "GetSiblingThreshold" /\ ret.done
    /\ call.q = <<100, 1>> /\ ret.q = <<25, 1>>

-----------------------------------------------------------------------------
(* Properties of the extraction pipeline, checked under Spec.              *)

\* C1: if the extraction returns an Article, the length of its textContent
\* is at least minContentLength; when the cleaned text of the selected
\* content is shorter than minContentLength the extraction returns the
\* content-too-short error and no Article.
C1_ContentLength ==
    /\ result.kind = "article" =>
           ByteLen(result.TextContent) >= config.MinContentLength
    /\ (pc = "done" /\ topCandidate # 0
          /\ ByteLen(GetCleanText(contentClone, contentSel)) < config.MinContentLength)
       => (result.kind = "error" /\ result.Err = "ErrContentTooShort")

\* the selected content was long enough before cleaning and too short after
C1_Witness ==
    /\ pc = "done"
    /\ result.kind = "error"
    /\ result.Err = "ErrContentTooShort"
    /\ GetTextLength(doc, contentSel) >= config.MinContentLength
    /\ ByteLen(GetCleanText(contentClone, contentSel)) > 0

\* C2: if after preprocessing no p or pre element has normalized text of
\* at least minParagraphLength code points, the extraction fails with the
\* no-content error and returns no Article; the content-too-short error is
\* never reported in that case.
C2_NoParagraphNoContent ==
    (/\ pc # "start"
     /\ \A p \in SeqToSet(FindTags(doc, Doc, {"p", "pre"})) :
            RuneCount(NormalizeText(Text(doc, p))) < config.MinParagraphLength)
    => /\ pc \in {"preprocessed", "scored", "done"}
       /\ pc = "scored" => topCandidate = 0
       /\ pc = "done" => (/\ result.kind = "error"
                          /\ result.Err = "ErrNoContent"
                          /\ result.Op = "extract")

\* a page that has a paragraph, but only one below minParagraphLength
C2_Witness ==
    /\ pc = "done"
    /\ FindTags(doc, Doc, {"p", "pre"}) # <<>>
    /\ \A p \in SeqToSet(FindTags(doc, Doc, {"p", "pre"})) :
           RuneCount(NormalizeText(Text(doc, p))) < config.MinParagraphLength
    /\ result.kind = "error"
    /\ result.Err = "ErrNoContent"

\* C3: whenever the score map is non-empty, candidate selection returns a
\* node of the map whose weighted score contentScore + weight is greater
\* than or equal to the weighted score of every other node in the map.
C3_TopCandidateIsMaximal ==
    (pc = "scored" /\ scoreMap # <<>>) =>
        /\ topCandidate \in 1..Len(scoreMap)
        /\ \A i \in 1..Len(scoreMap) :
               ~RGt(GetWeightedScore(scoreMap[i]),
                    GetWeightedScore(scoreMap[topCandidate]))

\* C4: candidate selection is deterministic: when two or more nodes tie for
\* the highest weighted score, the node selected is the tied node earliest
\* in document order.
C4_TieBreakEarliest ==
    (pc = "scored" /\ topCandidate # 0) =>
        LET order == Preorder(doc, Root)
            pos(n) == CHOOSE k \in 1..Len(order) : order[k] = n
            best == GetWeightedScore(scoreMap[topCandidate])
        IN  \A i \in 1..Len(scoreMap) :
                GetWeightedScore(scoreMap[i]) = best =>
                    pos(scoreMap[topCandidate].Selection) <= pos(scoreMap[i].Selection)

\* a tie in which the selection did fall on the earliest tied node
C4_Witness ==
    /\ pc = "scored" /\ topCandidate # 0
    /\ \E i \in 1..Len(scoreMap) :
           /\ i # topCandidate
           /\ GetWeightedScore(scoreMap[i]) = GetWeightedScore(scoreMap[topCandidate])
    /\ C4_TieBreakEarliest

\* C5: where the top candidate has a sibling under the same parent that
\* passes the merge test, that sibling's markup is part of the content
\* returned by MergeSiblings.
C5_PassingSiblingMerged ==
    (pc = "merged") =>
        LET top == scoreMap[topCandidate].Selection
            threshold == GetSiblingThreshold(scoreMap[topCandidate].ContentScore)
            parent == Parent(doc, top)
        IN  parent # 0 =>
                \A s \in SeqToSet(Children(doc, parent)) :
                    (s # top /\ shouldMergeSibling(doc, s, threshold,
                                                   config.MinParagraphLength))
                    => s \in SeqToSet(Preorder(doc, contentSel))

\* C6: the content block produced by sibling merging consists of exactly the
\* candidate's own markup and the markup of the siblings that pass the merge
\* test; a sibling that fails the test never appears in it.
C6_MergedContentExact ==
    (pc = "merged") =>
        LET top == scoreMap[topCandidate].Selection
            threshold == GetSiblingThreshold(scoreMap[topCandidate].ContentScore)
            parent == Parent(doc, top)
            merged == IF parent = 0 THEN {top}
                      ELSE {s \in SeqToSet(Children(doc, parent)) :
                               \/ s = top
                               \/ shouldMergeSibling(doc, s, threshold,
                                                     config.MinParagraphLength)}
            content == IF contentSel = top THEN {top}
                       ELSE SeqToSet(Children(doc, contentSel))
        IN  content = merged

-----------------------------------------------------------------------------
(* Claims about metadata, cleaning and the text helpers.                   *)

\* C11: the four metadata extractions (title, author, published date, lead
\* image) complete before the preprocessor first mutates the document: the
\* document differs from the parsed input only once all four are assigned,
\* and what they hold, and what the Article carries, is what the extractors
\* read off the untouched input, elements that preprocessing removes included.
C11_MetadataBeforeMutation ==
    /\ doc # input => meta.assigned
    /\ meta.assigned =>
          /\ meta.Title = ExtractTitle(input)
          /\ meta.Author = ExtractAuthor(input)
          /\ meta.PublishedAt = ExtractDate(input)
          /\ meta.LeadImage = extractLeadImage(input, baseURL)
    /\ result.kind = "article" =>
          /\ result.Title = ExtractTitle(input)
          /\ result.Author = ExtractAuthor(input)
          /\ result.PublishedAt = ExtractDate(input)
          /\ result.LeadImage = extractLeadImage(input, baseURL)

\* an Article whose four metadata fields all come from elements that the
\* preprocessor has removed from the document since
C11_Witness ==
    /\ result.kind = "article"
    /\ doc # input
    /\ result.Title # ExtractTitle(doc)
    /\ result.Author # ExtractAuthor(doc)
    /\ result.PublishedAt # ExtractDate(doc)
    /\ result.LeadImage # extractLeadImage(doc, baseURL)

\* C12: Postprocess and ConvertRelativeURLs act on a deep clone only: from
\* the end of sibling merging to the end of the call no step changes a node
\* of the document, nor the score map that references its nodes.
C12_CleaningOnClone ==
    [][(pc \in {"merged", "cleaned"}) => (doc' = doc /\ scoreMap' = scoreMap)]_vars

\* the cleaning has removed nodes and attributes from the clone, and the
\* subtree of the document still has them
C12_Witness ==
    /\ pc = "cleaned"
    /\ \E m \in SeqToSet(Preorder(doc, contentSel)) :
           /\ contentClone[m].kids # doc[m].kids
           /\ \E k \in SeqToSet(Preorder(doc, contentSel)) :
                  contentClone[k].attrs # doc[k].attrs
    /\ \A k \in 1..Len(scoreMap) : IsElement(doc, scoreMap[k].Selection)

\* the content subtree the cleaning stage works on, and the depth of a node
\* below the root of a tree
Content == Clone(doc, contentSel)
InTree(c, n) == SeqToSet(Preorder(c, n))

C14_ProtocolRelativeRewritten ==
    (pc = "cleaned" /\ baseURL # <<>>) =>
        LET before == Postprocess(Content, contentSel)
            scheme == IF MatchesAt(baseURL, <<"h","t","t","p","s",":">>, 1) THEN <<"h","t","t","p","s",":">> ELSE <<"h","t","t","p",":">>
            rewritten(m, name) ==
                \A a \in before[m].attrs :
                    (a[1] = name /\ MatchesAt(a[2], <<"/","/">>, 1))
                        => <<name, scheme \o a[2]>> \in contentClone[m].attrs
        IN  \A m \in InTree(before, contentSel) \ {contentSel} :
                /\ before[m].tag = "a" => rewritten(m, "href")
                /\ before[m].tag = "img" => rewritten(m, "src")

\* the text nodes below n hold white space only, none of it a carriage return
\* (which the serializer writes as a character reference)
BlankMarkup(c, n) ==
    \A k \in InTree(c, n) :
        c[k].tag = "#text" =>
            \A i \in 1..Len(c[k].text) : IsUniSpace(c[k].text[i]) /\ c[k].text[i] # "\r"

\* C15: after the empty-element removal of postprocessing no element of the
\* subtree other than br, hr and img has blank text together with empty or
\* white-space-only inner markup, and a further removal changes nothing.
C15_NoRemovableElementLeft ==
    pc = "cleaned" =>
        /\ \A n \in InTree(contentClone, contentSel) \ {contentSel} :
               (IsElement(contentClone, n) /\ contentClone[n].tag \notin {"br", "hr", "img"})
                   => ~(TrimSpace(Text(contentClone, n)) = <<>> /\ BlankMarkup(contentClone, n))
        /\ RemoveEmptyElements(contentClone, contentSel) = contentClone

\* a chain of four nested elements whose only text is white space in the
\* innermost one was removed whole, next to content that stayed
C15_Witness ==
    /\ pc = "cleaned"
    /\ \E e1, e2, e3, e4 \in InTree(doc, contentSel) \ InTree(contentClone, contentSel) :
           /\ Parent(doc, e4) = e3 /\ Parent(doc, e3) = e2 /\ Parent(doc, e2) = e1
           /\ IsElement(doc, e4) /\ doc[e4].kids # <<>>
           /\ Text(doc, e1) # <<>>
    /\ \E n \in InTree(contentClone, contentSel) \ {contentSel} : IsElement(contentClone, n)

\* C16: after Postprocess every anchor below the cleaned root has only href
\* and title, every img only src, alt, title, width and height, every other
\* element no attribute, and each allowed attribute the element had is kept
\* with its value.
C16_AttributeAllowList ==
    contentSel # 0 =>
        LET after == Postprocess(Content, contentSel)
            allowed(n) ==
                IF doc[n].tag = "a" THEN {"href", "title"}
                ELSE IF doc[n].tag = "img" THEN {"src", "alt", "title", "width", "height"}
                ELSE {}
        IN  \A n \in InTree(after, contentSel) \ {contentSel} :
                IsElement(after, n) =>
                    after[n].attrs = {a \in doc[n].attrs : a[1] \in allowed(n)}

\* an anchor kept href and title and lost rel and class, an img kept src, alt
\* and width and lost data-src, and a paragraph lost its class
C16_Witness ==
    /\ pc = "cleaned"
    /\ LET after == Postprocess(Content, contentSel)
           names(t, n) == {a[1] : a \in t[n].attrs}
       IN  \E a, i, p \in InTree(after, contentSel) \ {contentSel} :
               /\ doc[a].tag = "a" /\ {"rel", "class"} \subseteq names(doc, a)
               /\ names(after, a) = {"href", "title"}
               /\ doc[i].tag = "img" /\ "data-src" \in names(doc, i)
               /\ names(after, i) = {"src", "alt", "width"}
               /\ doc[p].tag = "p" /\ names(doc, p) = {"class"} /\ names(after, p) = {}

\* C17: for every text and every positive maxLength GetExcerpt returns a
\* string of at most maxLength + 3 code points; the excerpt of an Article
\* (maxLength 200) has at most 203.
C17_ExcerptLength ==
    /\ (call.op = "GetExcerpt" /\ ret.done /\ call.n > 0) =>
           (~ret.panic /\ RuneCount(ret.s) <= call.n + 3)
    /\ result.kind = "article" => RuneCount(result.Excerpt) <= 203

\* C18: the link density of a node lies in [0, 1]; it is 0 when the node has
\* no anchor below it or no text, and 1 when all its text is inside one anchor.
C18_LinkDensityRange ==
    (call.op = "CalculateLinkDensity" /\ ret.done) =>
        LET anchors == SeqToSet(FindTags(call.d, call.n, {"a"}))
            text == NormalizeText(Text(call.d, call.n))
        IN  /\ ~RLt(ret.q, <<0, 1>>) /\ ~RGt(ret.q, <<1, 1>>)
            /\ (anchors = {} \/ text = <<>>) => ret.q = <<0, 1>>
            /\ (text # <<>> /\ \E a \in anchors : NormalizeText(Text(call.d, a)) = text)
                   => ret.q = <<1, 1>>

\* C19: ExtractDate returns the date of the first source, in the order meta
\* article:published_time, JSON-LD datePublished, itemprop datePublished,
\* time[datetime], date class, whose value is present and parses; a missing
\* or unparseable value is skipped; nothing is returned only if none parses.
C19_FirstParseableDate ==
    (call.op = "ExtractDate" /\ ret.done) =>
        LET parses == SelectSeq(<<1, 2, 3, 4, 5>>, LAMBDA k : call.ds[k] = DateString(k))
        IN  ret.t = IF parses = <<>> THEN NoTime
                    ELSE [NoTime EXCEPT !.year = 2024, !.month = 1, !.day = 10 + parses[1]]

\* C20: for a title with one occurrence of one separator cleanTitle returns
\* the side that is more than twice as long as the other, and the whole
\* white-space-normalized title when neither is.
C20_CleanTitleLongerSide ==
    (call.op = "cleanTitle" /\ ret.done) =>
        LET before == NormalizeText(call.s1)
            after == NormalizeText(call.s2)
        IN  ret.s = IF Len(before) > 2 * Len(after) THEN before
                    ELSE IF Len(after) > 2 * Len(before) THEN after
                    ELSE before \o call.s3 \o after

\* the p and pre elements of a document that contribute a score, in document order
ScoredParagraphs(d, minParagraphLength) ==
    SelectSeq(FindTags(d, Doc, {"p", "pre"}),
              LAMBDA p : ScoreParagraph(Text(d, p), minParagraphLength) # 0)

\* what the paragraphs ps contribute to node n: the full score as parent,
\* half of it as grandparent
Contributions(d, ps, n, minParagraphLength) ==
    LET share(p) ==
            IF Parent(d, p) = n THEN ParentScoreProportion
            ELSE IF Parent(d, p) # 0 /\ Parent(d, Parent(d, p)) = n
            THEN GrandparentScoreProportion
            ELSE <<0, 1>>
        RECURSIVE sum(_)
        sum(k) == IF k = 0 THEN <<0, 1>>
                  ELSE RAdd(sum(k - 1),
                            RMul(<<ScoreParagraph(Text(d, ps[k]), minParagraphLength), 1>>,
                                 share(ps[k])))
    IN  sum(Len(ps))

\* C24: after propagation every ancestor that received a contribution has
\* one entry whose contentScore is its tag bonus and hNews bonus, added
\* once, plus the contributions, and whose weight, link density and text
\* length are those of the node.
C24_InitializedOnce ==
    (call.op = "Score" /\ ret.done) =>
        LET d == call.d
            ps == ScoredParagraphs(d, call.n)
            ancestors == {n \in Nodes : \E k \in 1..Len(ps) :
                             n # 0 /\ (n = Parent(d, ps[k]) \/ n = Parent(d, Parent(d, ps[k])))}
        IN  /\ {ret.sm[i].Selection : i \in 1..Len(ret.sm)} = ancestors
            /\ Len(ret.sm) = Cardinality(ancestors)
            /\ \A i \in 1..Len(ret.sm) :
                   LET n == ret.sm[i].Selection
                   IN  /\ ret.sm[i].ContentScore =
                              RAdd(<<GetTagScore(d[n].tag)
                                         + (IF hasHNews(d, n) THEN HNewsBonus ELSE 0), 1>>,
                                   Contributions(d, ps, n, call.n))
                       /\ ret.sm[i].Weight =
                              GetWeight(GetAttribute(d, n, "class"), GetAttribute(d, n, "id"))
                       /\ ret.sm[i].LinkDensity = CalculateLinkDensity(d, n)
                       /\ ret.sm[i].TextLength = GetTextLength(d, n)

\* the callback of PropagateScores applied to the paragraphs ps, in that order
PropagateOver(d, ps, minParagraphLength) ==
    LET RECURSIVE go(_)
        go(k) == IF k = 0 THEN <<>>
                 ELSE PropagateParagraph(d, go(k - 1), ps[k], minParagraphLength)
    IN  go(Len(ps))

\* C25: the score map of propagation does not depend on the order in which
\* the paragraphs are visited: for every permutation of the p/pre elements
\* each ancestor ends with the same contentScore, weight, link density and
\* text length as in document order.
C25_OrderIndependent ==
    (call.op = "Score" /\ ret.done) =>
        LET ps == FindTags(call.d, Doc, {"p", "pre"})
            perms == {o \in [1..Len(ps) -> 1..Len(ps)] :
                         \A i, j \in 1..Len(ps) : o[i] = o[j] => i = j}
            entries(sm) == {sm[i] : i \in 1..Len(sm)}
        IN  \A o \in perms :
                entries(PropagateOver(call.d, [k \in 1..Len(ps) |-> ps[o[k]]], call.n))
                    = entries(ret.sm)

\* C26: RefineScores, run by Score between propagation and selection,
\* replaces contentScore by contentScore * (1 - linkDensity) exactly for the
\* nodes whose link density is above 0.5 (weight >= 0) or above 0.2
\* (weight < 0) and changes nothing else.
C26_RefineScores ==
    (call.op = "Score" /\ ret.done) =>
        /\ Len(ret.sm2) = Len(ret.sm)
        /\ \A i \in 1..Len(ret.sm) :
               LET before == ret.sm[i]
                   after == ret.sm2[i]
                   ld == before.LinkDensity
                   high == IF before.Weight >= 0 THEN ld[1] * 2 > ld[2]
                           ELSE ld[1] * 5 > ld[2]
               IN  /\ after = [before EXCEPT !.ContentScore = after.ContentScore]
                   /\ after.ContentScore =
                          IF high
                          THEN Rat(before.ContentScore[1] * (ld[2] - ld[1]),
                                   before.ContentScore[2] * ld[2])
                          ELSE before.ContentScore

\* a node of negative weight with link density 1/3 was refined, in a map
\* where a node of weight 0 with the same link density was not
C26_Witness ==
    /\ call.op = "Score" /\ ret.done
    /\ \E i \in 1..Len(ret.sm) :
           /\ ret.sm[i].Weight < 0 /\ ret.sm[i].LinkDensity = <<1, 3>>
           /\ ret.sm2[i].ContentScore = RMul(ret.sm[i].ContentScore, <<2, 3>>)
           /\ ret.sm2[i].ContentScore # ret.sm[i].ContentScore
    /\ \E j \in 1..Len(ret.sm) :
           /\ ret.sm[j].Weight = 0 /\ ret.sm[j].LinkDensity = <<1, 3>>
           /\ ret.sm2[j] = ret.sm[j]

\* C29: RemoveEmptyElements removes no br, hr or img element: each one that
\* is in the subtree of the selection before the call is in it afterwards,
\* wherever it sits.
C29_SelfClosingKept ==
    contentSel # 0 =>
        LET before == CleanAttributes(RemoveUnwantedFromContent(Content, contentSel),
                                      contentSel)
            after == RemoveEmptyElements(before, contentSel)
        IN  \A n \in InTree(before, contentSel) :
                before[n].tag \in {"br", "hr", "img"} => n \in InTree(after, contentSel)

-----------------------------------------------------------------------------
(* Properties of the URL-driven variant, checked under SpecURL.            *)

\* C21: when the body answered is larger than maxContentLength bytes and the
\* fetch itself succeeds, ExtractFromURL fails with the content-too-large
\* error; no Article is ever extracted from a body that was cut.
C21_TooLargeBodyRejected ==
    (call.op = "ExtractFromURL" /\ Len(call.s2) > call.n) =>
        /\ result.kind # "article"
        /\ pc \notin {"start", "preprocessed", "scored", "merged", "cleaned"}
        /\ (pc = "returned" /\ result.kind = "error" /\ result.Op # "fetch") => result.Err = "ErrContentTooLarge"

\* C22: ExtractFromURL of a string that is not an http:// or https:// URL
\* fails with the invalid-url error of operation "validate" and never
\* reaches the fetch.
C22_InvalidURLRejected ==
    (call.op = "ExtractFromURL" /\ ~IsValidURL(call.s1)) =>
        /\ pc \in {"validate", "done", "returned"}
        /\ pc # "validate" =>
               (result.kind = "error" /\ result.Op = "validate" /\ result.Err = "ErrInvalidURL")

-----------------------------------------------------------------------------
(* Properties of concurrent calls, checked under SpecConc.                 *)

\* the results extractFromDocument can return for a document when the call
\* runs alone
AloneResults(d, base, cfg) ==
    LET s0 == [pc |-> "start", baseURL |-> base, meta |-> NoMeta, doc |-> d,
               scoreMap |-> <<>>, topCandidate |-> 0, contentSel |-> 0,
               contentClone |-> EmptyTree, result |-> NoResult]
        RECURSIVE run(_, _)
        run(S, k) ==
            IF k = 0 THEN S
            ELSE run(UNION {IF s.pc = "done" THEN {s} ELSE StageResults(s, cfg) : s \in S},
                     k - 1)
    IN  {s.result : s \in run({s0}, 7)}

\* C23: in every interleaving of two concurrent Extract calls a step of one
\* call changes nothing of the other call's document, score map or other
\* state and never writes the configuration, and each call returns a result
\* it can return when it runs alone.
C23_CallsIndependent ==
    [][/\ config' = config
       /\ \A i \in Calls :
              (pc'[i] = pc[i] /\ meta'[i] = meta[i]) =>
                  /\ doc'[i] = doc[i] /\ scoreMap'[i] = scoreMap[i]
                  /\ topCandidate'[i] = topCandidate[i] /\ contentSel'[i] = contentSel[i]
                  /\ contentClone'[i] = contentClone[i] /\ result'[i] = result[i]
       /\ \A i \in Calls :
              (pc'[i] = "done" /\ pc[i] # "done") =>
                  result'[i] \in AloneResults(input[i], baseURL[i], config)]_vars

\* both calls are under way on different documents, each with its own
\* non-empty score map, and one of them has already cleaned its content
C23_Witness ==
    /\ call.op = "Extract"
    /\ pc[1] = "scored" /\ pc[2] = "cleaned"
    /\ doc[1] # doc[2]
    /\ scoreMap[1] # <<>> /\ scoreMap[2] # <<>> /\ scoreMap[1] # scoreMap[2]

-----------------------------------------------------------------------------
\* Claims about the preprocessor (checked under SpecPre)

\* the elements of the document d on which the step from d to e called Remove
OwnRemoved(d, e) ==
    {n \in SeqToSet(Preorder(d, Root)) :
        /\ IsElement(d, n) /\ n # Root
        /\ \A i \in 1..Len(e[Parent(d, n)].kids) : e[Parent(d, n)].kids[i] # n}

Combined(d, n) == GetAttribute(d, n, "class") \o <<" ">> \o GetAttribute(d, n, "id")

ListedOrder ==
    << "RemoveUnwantedTags", "RemoveHiddenElements", "RemoveKnownWidgets",
       "StripUnlikelyTags", "StripBlacklisted", "ConvertToParagraphs",
       "ConvertDataArticleBodyToParagraphs" >>

ListedIndex(step) == CHOOSE i \in 1..Len(ListedOrder) : ListedOrder[i] = step

\* C28: Preprocess applies its steps in the listed order, the
\* data-articlebody conversion last: the step that runs next is never
\* earlier in the list than the step that has just run.
C28_ListedOrder ==
    [][(call.op = "Preprocess" /\ pc' # pc /\ pc' # "preprocessed") =>
          ListedIndex(pc) < ListedIndex(pc')]_vars

-----------------------------------------------------------------------------
\* Claims about ScoreMap (checked under SpecMap)

\* C30: after any sequence of Get, GetOrNil and Set calls with handles that
\* reference nodes the map holds at most one NodeScore per node: two handles
\* of the same node resolve to the same NodeScore, and Size is the number of
\* distinct nodes scored.
C30_OneScorePerNode ==
    (call.op \in {"Get", "GetOrNil", "Set"} /\ \A e \in scoreMap : e.key # 0) =>
        /\ \A e1, e2 \in scoreMap :
               FirstNode(e1.key) = FirstNode(e2.key) => e1.score = e2.score
        /\ Size(scoreMap) = Cardinality({FirstNode(e.key) : e \in scoreMap})

====
